---- MODULE Spec2Model ----
(***************************************************************************)
(* Model of the bakery build controller (rayshoo/bakery).                  *)
(*                                                                         *)
(* One Build State (internal/state), the goroutines StartBuild launches    *)
(* for it (internal/orchestrator: one supervisor per effective config and  *)
(* one finalizer), the HTTP handlers that touch it (internal/routes:       *)
(* POST /build/:id/result and GET /build/:id/logs) and the public methods  *)
(* of BuildState called by arbitrary concurrent clients.                   *)
(*                                                                         *)
(* Every critical section of BuildState.Mu is one atomic step.  AppendLog  *)
(* is two steps: the read of `finished` under the read lock, and the       *)
(* non-blocking send that follows the unlock.  The supervisors and the     *)
(* finalizer call AppendLog only before the finalizer calls Finish, the    *)
(* one place of the controller that writes `finished`: their read of the   *)
(* flag commutes with every concurrent step and is taken together with     *)
(* the send.  The variable `mu` follows the one place where a goroutine    *)
(* holds the read lock of BuildState.Mu across a call that locks again     *)
(* (the trailer of the log stream); everywhere else the lock is free       *)
(* between two steps.                                                      *)
(*                                                                         *)
(* The pure parts of the controller have specifications of their own:      *)
(* SpecConfig (config.BuildEffectiveList), SpecStore (state.Store),        *)
(* SpecSubmit (StartBuild from the request body on), SpecResult (the       *)
(* parsing and the answers of POST /build/:id/result), SpecResources       *)
(* (config.NormalizeECSResources and its helpers), SpecIngest              *)
(* (BuildState.MarkIngestStarted and MarkIngestDone), SpecSuffix          *)
(* (appendArchSuffix and appendTaskSuffix) and SpecDestination (the        *)
(* references the executors and createManifest compute for a task).        *)
(*                                                                         *)
(* The executors are followed step by step in specifications of their      *)
(* own, next to the supervisors of a two-task build: SpecK8s (K8sExecutor  *)
(* from the creation of the job on), SpecEcs (ECSExecutor from the RunTask *)
(* call on) and SpecTaskDef (the task-definition cache of the ECS          *)
(* executor under concurrent callers).  SpecAssembly is the finalizer of   *)
(* multi-arch builds whose executors have returned, with the result        *)
(* callbacks.                                                              *)
(***************************************************************************)
EXTENDS Integers, Sequences, FiniteSets, Bags, TLC

(***************************************************************************)
(* Bounds of the model.                                                    *)
(***************************************************************************)
\* capacity of the Logs channel in the model (the program allocates 1000)
LogCap == 1
\* number of POST /build/:id/result requests that are in the handler at once
MaxInflight == 1
\* number of calls the clients of the BuildState API make (SpecApi)
MaxOps == 3

(***************************************************************************)
(* Inputs.                                                                 *)
(***************************************************************************)
Digests == {"sha256:A", "sha256:B"}

\* an effective config, reduced to the fields the orchestrator branches on
Task(a, np, pf) == [arch |-> a, noPush |-> np, platform |-> pf]

\* the effective lists StartBuild is given (output of BuildEffectiveList)
Manifests ==
    { <<Task("amd64", FALSE, "ecs")>>,
      <<Task("amd64", FALSE, "ecs"), Task("arm64", FALSE, "k8s")>>,
      <<Task("amd64", FALSE, "ecs"), Task("amd64", TRUE, "k8s")>> }

\* a task id that no effective config of the build carries
RogueId == "zzz"

\* the id generateBuildID gives the build of the model, and another id
BuildId == "b1"
OtherId == "b2"

VARIABLES
    cfg,              \* the manifest handed to StartBuild or BuildEffectiveList
    plan,             \* what BuildEffectiveList returned: [list, err]
    ret,              \* what StartBuild returned: [id, err]
    states,           \* Store.states: key -> the BuildState registered
    got,              \* what the last Store.Get returned: [key, st, ok]
    allocs,           \* number of BuildStates allocated so far
    lastReg,          \* history: key -> the state registered last, if any
    mu,               \* BuildState.Mu: "free", "read" or "dead"
    resp,             \* POST /build/:id/result: the last request and its answer
    call,             \* the last call of a function: [fn, args, result]
    IngestStarted,    \* BuildState.IngestStarted: the task ids set to true
    IngestDone,       \* BuildState.IngestDone: the task ids set to true
    IngestDoneCt,     \* BuildState.IngestDoneCt
    doneTrue,         \* history: number of MarkIngestDone calls that returned true
    k8sConfigured,    \* Orchestrator.k8s is not nil
    k8sRun,           \* one K8sExecutor.RunTask after the job is created
    ecsRun,           \* one ECSExecutor.RunTaskForArch after the task is started
    taskDef,          \* ECSExecutor task definitions: cache, mutex, callers
    effectiveList,    \* StartBuild: the resolved effective list of the build
    Results,          \* BuildState.Results: task id -> TaskResult
    ResultsReceived,  \* BuildState.ResultsReceived
    FirstError,       \* BuildState.FirstError
    finished,         \* BuildState.finished
    closed,           \* BuildState.closed
    Logs,             \* BuildState.Logs: the buffered content of the channel
    TaskArnByID,      \* BuildState.TaskArnByID: the task ids that have a handle
    sup,              \* supervisor goroutines: index -> position
    fz,               \* finalizer goroutine: [pc, err, k, images]
    fin,              \* activations of Finish: caller -> [pc, err, lines]
    reqs,             \* in-flight POST /build/:id/result requests (a bag)
    api,              \* API client's in-flight AppendLog: "idle" | "send"
    opsLeft,          \* API calls the clients may still make
    trailer,          \* GET /build/:id/logs: the final entry written at close
    recorded,         \* history: the first non-nil error handed to the state
    closeCount,       \* history: number of close(s.Logs); close(s.Done) executed
    verdicts,         \* history: number of final verdict lines Finish emitted
    verdict,          \* history: the last verdict line Finish emitted
    manifestCalls,    \* history: number of times createManifest was invoked
    remoteStarts      \* history: the supervisors that called an executor

vars == <<cfg, plan, ret, states, got, allocs, lastReg, mu, resp, call,
          IngestStarted, IngestDone, IngestDoneCt, doneTrue, effectiveList,
          Results, ResultsReceived, FirstError, finished, closed,
          Logs, TaskArnByID, sup, fz, fin, reqs, api, opsLeft,
          trailer, recorded, closeCount, verdicts, verdict,
          manifestCalls, k8sConfigured, k8sRun, ecsRun, taskDef,
          remoteStarts>>

\* what the goroutines of a running build leave alone
storeVars == <<states, got, allocs, lastReg>>
ingestVars == <<IngestStarted, IngestDone, IngestDoneCt, doneTrue>>
execVars == <<k8sConfigured, k8sRun, ecsRun, taskDef>>
buildVars ==
    <<cfg, plan, ret, storeVars, resp, call, ingestVars, execVars,
      effectiveList>>

\* BuildState.Mu is a sync.RWMutex.  A critical section is one step, taken
\* when the lock can be had, so that the lock is free between the steps, with
\* one exception: the stream writer of GET /build/:id/logs takes the read lock
\* and then calls GetError, which takes it again (routes, lines 150-152).
\* mu = "read" between the two.  A writer that calls Lock() then waits for
\* the read lock to be released, while the RLock() of GetError, as every
\* RLock() that follows a waiting writer, waits for the writer: mu = "dead".
\* The supervisors and the finalizer use the lock before the channel is
\* closed only, when no stream writer holds it.
constVars == <<buildVars, mu>>

\* Lock() returns
CanLock == mu = "free"

\* RLock() returns
CanRLock == mu # "dead"

stateVars == <<Results, ResultsReceived, FirstError, finished, closed, TaskArnByID>>
histVars == <<recorded, closeCount, verdicts, verdict, manifestCalls>>
readerVars == <<trailer>>

\* BuildEffectiveList has not returned yet
NoPlan == [list |-> <<>>, err |-> [kind |-> "not called", task |-> "", r |-> 0, n |-> 0]]

\* a *BuildState: the ID field it was built with and which allocation it is
StateRef(id, n) == [ID |-> id, ptr |-> n]

\* a section of a manifest (GlobalConfig, BakeConfig) without credentials,
\* ignore paths and destination.  Destination is "" both for a bake entry
\* that does not set one (nil pointer) and for one that sets the empty string
Section(pf, a, np, env, args) ==
    [Platform |-> pf, Arch |-> a, NoPush |-> np, Env |-> env, BuildArgs |-> args,
     KanikoCredentials |-> <<>>, IgnorePath |-> <<>>, Destination |-> ""]

\* the section with kaniko-credentials, kaniko.ignore-path and
\* kaniko.destination set
Kaniko(sec, creds, ignore, dest) ==
    [sec EXCEPT !.KanikoCredentials = creds, !.IgnorePath = ignore,
                !.Destination = dest]

EmptyMap == [k \in {} |-> ""]

\* a *BuildConfig: nil, or a pointer to a manifest
NilConfig ==
    [nil |-> TRUE, Global |-> Section("", "", "nil", EmptyMap, EmptyMap),
     Bake |-> <<>>]

\* no POST /build/:id/result request has been answered yet
NoResp ==
    [n |-> 0, id |-> "", wellFormed |-> FALSE, query |-> "", bodyTask |-> "",
     digest |-> "", success |-> FALSE, status |-> 0, task |-> ""]

\* no executor runs
NoRun == [pc |-> "idle"]

\* the goroutines that call EnsureTaskDefinitionForArch of the one ECS
\* executor of the process
Callers == {"c1", "c2"}

\* NewECSExecutor, lines 42-67 of the ECS executor: an empty taskDefCache
\* and a free taskDefMu; no call is in progress.  `registered` are the
\* families ECS knows; the other fields are the history of the calls: how
\* many each caller has made, the RegisterTaskDefinition requests issued,
\* the pairs of calls that were in progress at the same time, and the
\* families a describe or a register has succeeded for
NoTaskDef ==
    [cache |-> {}, holder |-> "none",
     frames |-> [c \in Callers |-> [pc |-> "idle"]],
     registered |-> {}, calls |-> [c \in Callers |-> 0], regs |-> {},
     overlap |-> {}, confirmed |-> {}]

\* no pure function has been called yet
NoCall == [fn |-> "", args |-> <<>>, result |-> <<>>]

\* Store.Get has not been called yet
NoGet == [key |-> "", ID |-> "", ptr |-> 0, ok |-> FALSE, called |-> FALSE]

(***************************************************************************)
(* Errors.  An error value is its kind and the values its message prints.  *)
(***************************************************************************)
Err(kind, task, r, n) == [kind |-> kind, task |-> task, r |-> r, n |-> n]
Nil == Err("nil", "", 0, 0)
\* fmt.Errorf("task %s failed: %s", taskID, errMsg)
TaskFailedErr(t) == Err("task failed", t, 0, 0)
\* the error an executor returns to the supervisor
ExecErr == Err("executor", "", 0, 0)
\* fmt.Errorf("panic in task %s: %v", tid, r)
PanicErr(t) == Err("panic", t, 0, 0)
\* fmt.Errorf("timeout waiting for agent results (%d/%d received)", r, n)
TimeoutErr(r, n) == Err("timeout waiting for agent results", "", r, n)
\* the errors createManifest returns
ManifestErr(why, t) == Err(why, t, 0, 0)
\* an error a client of the API passes to SetError or Finish
ClientErr == Err("client", "", 0, 0)

(***************************************************************************)
(* StartBuild: what it derives from the effective list.                    *)
(***************************************************************************)
TotalTasks == Len(effectiveList)

PushIdx == {i \in 1..Len(effectiveList) : ~effectiveList[i].noPush}

\* variant: duplicate archs looked for among all tasks, pushing or not
HasDuplicateArchAll ==
    \E i, j \in 1..Len(effectiveList) :
        i # j /\ effectiveList[i].arch = effectiveList[j].arch

\* lines 98-109: some arch is the arch of more than one pushing task
HasDuplicateArch ==
    \E i, j \in PushIdx : i # j /\ effectiveList[i].arch = effectiveList[j].arch

\* variant: single-arch decided from all tasks instead of the pushing ones
IsSingleArchLen == Len(effectiveList) <= 1

\* line 111: isSingleArch := len(pushTasks) <= 1
IsSingleArch == Cardinality(PushIdx) <= 1

\* the task id of the effective config at (0-based) index i-1
TaskIdAt(i) ==
    IF HasDuplicateArch
    THEN effectiveList[i].arch \o "-" \o ToString(i - 1)
    ELSE effectiveList[i].arch

BuildTaskIds == {TaskIdAt(i) : i \in 1..Len(effectiveList)}

\* the task ids a result request can carry
CallbackIds == BuildTaskIds \cup {RogueId}

\* sort.Strings on the task ids of the model: their lexicographic order
IdOrder ==
    <<"amd64", "amd64-0", "amd64-1", "arm64", "arm64-0", "arm64-1", "zzz">>

RECURSIVE SortedFrom(_, _)
SortedFrom(keys, i) ==
    IF i > Len(IdOrder) THEN <<>>
    ELSE IF IdOrder[i] \in keys
         THEN <<IdOrder[i]>> \o SortedFrom(keys, i + 1)
         ELSE SortedFrom(keys, i + 1)

SortStrings(keys) == SortedFrom(keys, 1)

(***************************************************************************)
(* BuildState: the pure parts of its methods.                              *)
(***************************************************************************)
TaskResult(d, s) == [digest |-> d, success |-> s]

EmptyResults == [t \in {} |-> TaskResult("", FALSE)]

Put(m, k, v) == [x \in DOMAIN m \cup {k} |-> IF x = k THEN v ELSE m[x]]

Entry(msg, task, status, ff) ==
    [msg |-> msg, task |-> task, status |-> status, fromFinish |-> ff]

\* an entry appended through the public AppendLog
PubEntry(msg) == Entry(msg, "", "", FALSE)

\* appendLog, lines 165-171: does the call go on to the send?
PassesFinishedCheck(isFinished, fromFinish) == fromFinish \/ ~isFinished

\* appendLog, lines 173-178: the channel after the non-blocking send; a send
\* on a closed channel panics and the deferred recover() swallows the panic
ChanSend(logs, isClosed, e) ==
    IF isClosed THEN logs
    ELSE IF Len(logs) < LogCap THEN Append(logs, e)
    ELSE logs

\* variant: a plain channel send, which waits for room in the buffer
SendReadyBlocking(logs, isClosed) == isClosed \/ Len(logs) < LogCap

\* appendLog, lines 175-178: can the send complete in the current state?
\* (select with a default branch: always)
SendReady(logs, isClosed) == TRUE

\* variant: a SetError that lets a later error replace the first one
StickyOverwrite(cur, e) == IF e # Nil THEN e ELSE cur

\* SetError, line 344: the value of FirstError after SetError(e)
Sticky(cur, e) == IF cur = Nil /\ e # Nil THEN e ELSE cur

\* the first non-nil error among those handed over so far (history)
FirstRecorded(rec, e) == IF rec # Nil THEN rec ELSE e

AllResultsReceived == ResultsReceived = TotalTasks

HasError == FirstError # Nil

\* the status logTaskSummary prints for a task id
SummaryStatus(snap, t) ==
    IF t \in DOMAIN snap
    THEN IF snap[t].success THEN "success" ELSE "failed"
    ELSE "unknown"

Init ==
    /\ cfg = NilConfig
    /\ plan = NoPlan
    /\ ret = [id |-> BuildId, err |-> Nil]
    /\ states = (BuildId :> StateRef(BuildId, 1))
    /\ got = NoGet
    /\ allocs = 1
    /\ lastReg = (BuildId :> StateRef(BuildId, 1))
    /\ mu = "free"
    /\ resp = NoResp
    /\ call = NoCall
    /\ IngestStarted = {}
    /\ IngestDone = {}
    /\ IngestDoneCt = 0
    /\ doneTrue = 0
    /\ effectiveList \in Manifests
    /\ Results = EmptyResults
    /\ ResultsReceived = 0
    /\ FirstError = Nil
    /\ finished = FALSE
    /\ closed = FALSE
    /\ Logs = <<>>
    /\ TaskArnByID = {}
    /\ sup = [i \in 1..Len(effectiveList) |-> "start"]
    /\ fz = [pc |-> "wait", err |-> Nil, k |-> 1, images |-> <<>>]
    /\ fin = [c \in {"fz", "a1", "a2"} |->
                [pc |-> "idle", err |-> Nil, lines |-> <<>>]]
    /\ reqs = EmptyBag
    /\ api = "idle"
    /\ opsLeft = MaxOps
    /\ trailer = "none"
    /\ recorded = Nil
    /\ closeCount = 0
    /\ verdicts = 0
    /\ verdict = "none"
    /\ manifestCalls = 0
    /\ k8sConfigured = TRUE
    /\ k8sRun = NoRun
    /\ ecsRun = NoRun
    /\ taskDef = NoTaskDef
    /\ remoteStarts = {}

(***************************************************************************)
(* The public AppendLog of a request whose frame is [pc, snd, ...]:        *)
(* AfterCheck is the frame after lines 165-171, AfterSend the frame after  *)
(* the send; `next` is the position after AppendLog returns.               *)
(***************************************************************************)
AfterCheck(f, next) ==
    IF PassesFinishedCheck(finished, FALSE)
    THEN [f EXCEPT !.snd = TRUE]
    ELSE [f EXCEPT !.pc = next]

AfterSend(f, next) == [f EXCEPT !.snd = FALSE, !.pc = next]

(***************************************************************************)
(* POST /build/:id/result (routes.Setup), for a request that passed the    *)
(* validation of its body, task id and build id.                           *)
(***************************************************************************)
\* the position of one request in the handler; the handler looks at the task
\* id, the digest and the success flag of the request in its critical section
Req(pc, snd) == [pc |-> pc, snd |-> snd]

Replace(bag, old, new) == (bag (-) SetToBag({old})) (+) SetToBag({new})

ReqNext(pc) ==
    CASE pc = "received" -> "lock"
      [] pc = "reply" -> "return"

\* the request after one of the handler's steps; the handler returns 200
\* when it reaches "return"
Moved(bag, r, f) ==
    IF f.pc = "return" THEN bag (-) SetToBag({r}) ELSE Replace(bag, r, f)

\* a worker (or any other client) posts a result: the handler starts with
\* AppendLog (line 260), that is with the read of `finished`.  The request
\* takes `cost` of the client operations that are left.
ResultArrive(cost) ==
    /\ CanRLock
    /\ opsLeft >= cost
    /\ BagCardinality(reqs) < MaxInflight
    /\ reqs' = reqs (+) SetToBag({AfterCheck(Req("received", FALSE), "lock")})
    /\ opsLeft' = opsLeft - cost
    /\ UNCHANGED <<constVars, stateVars, Logs, sup, fz, fin, api,
                   readerVars, histVars, remoteStarts>>

\* the handler's AppendLog after the critical section: the read of `finished`
ResultLogCheck(r) ==
    /\ CanRLock
    /\ BagIn(r, reqs)
    /\ r.pc = "reply"
    /\ ~r.snd
    /\ reqs' = Moved(reqs, r, AfterCheck(r, ReqNext(r.pc)))
    /\ UNCHANGED <<constVars, stateVars, Logs, sup, fz, fin, api,
                   opsLeft, readerVars, histVars, remoteStarts>>

\* the handler's AppendLog calls: the send
ResultLogSend(r) ==
    /\ BagIn(r, reqs)
    /\ r.snd
    /\ SendReady(Logs, closed)
    /\ Logs' = ChanSend(Logs, closed, PubEntry("log"))
    /\ reqs' = Moved(reqs, r, AfterSend(r, ReqNext(r.pc)))
    /\ UNCHANGED <<constVars, stateVars, sup, fz, fin, api, opsLeft,
                   readerVars, histVars, remoteStarts>>

\* lines 271-290 of the handler: is the result a duplicate to be dropped?
IsDuplicate(results, t) == t \in DOMAIN results

\* variant: a handler that stores a failed result without recording an error
AfterResultIgnored(cur, t, s) == cur

\* lines 300-302 of the handler: FirstError after a result was stored
AfterResult(cur, t, s) == IF ~s /\ cur = Nil THEN TaskFailedErr(t) ELSE cur

\* the critical section of the handler (st.Mu.Lock() ... st.Mu.Unlock()) for
\* a request with task id t, digest d and success flag s
ResultLock(r, t, d, s) ==
    /\ CanLock
    /\ BagIn(r, reqs)
    /\ r.pc = "lock"
    /\ IF IsDuplicate(Results, t)
       THEN UNCHANGED <<Results, ResultsReceived, FirstError, recorded>>
       ELSE /\ Results' = Put(Results, t, TaskResult(d, s))
            /\ ResultsReceived' = ResultsReceived + 1
            /\ FirstError' = AfterResult(FirstError, t, s)
            /\ recorded' = IF ~s THEN FirstRecorded(recorded, TaskFailedErr(t))
                           ELSE recorded
    /\ reqs' = Replace(reqs, r, [r EXCEPT !.pc = "reply"])
    /\ UNCHANGED <<constVars, finished, closed, TaskArnByID, Logs, sup, fz,
                   fin, api, opsLeft, readerVars, closeCount, verdicts,
                   verdict, manifestCalls, remoteStarts>>

(***************************************************************************)
(* GET /build/:id/logs (routes.Setup): the stream writer of one client.    *)
(***************************************************************************)
\* case logEntry, ok := <-st.Logs with ok = true
ReaderForward ==
    /\ trailer = "none"
    /\ mu = "free"
    /\ Logs # <<>>
    /\ Logs' = Tail(Logs)
    /\ UNCHANGED <<constVars, stateVars, sup, fz, fin, reqs, api,
                   opsLeft, trailer, histVars, remoteStarts>>

\* case logEntry, ok := <-st.Logs with ok = false: st.Mu.RLock(), line 150
ReaderRLock ==
    /\ trailer = "none"
    /\ Logs = <<>>
    /\ closed
    /\ mu = "free"
    /\ mu' = "read"
    /\ UNCHANGED <<buildVars, stateVars, Logs, sup, fz, fin, reqs,
                   api, opsLeft, readerVars, histVars, remoteStarts>>

\* lines 151-169: st.GetError(), whose RLock() returns unless a writer
\* waits, st.Mu.RUnlock() and the final entry
ReaderTrailer ==
    /\ mu = "read"
    /\ mu' = "free"
    /\ trailer' = IF FirstError # Nil THEN "BUILD FAILED" ELSE "BUILD SUCCEEDED"
    /\ UNCHANGED <<buildVars, stateVars, Logs, sup, fz, fin, reqs,
                   api, opsLeft, histVars, remoteStarts>>

\* a goroutine calls st.Mu.Lock() while the stream writer holds the read
\* lock: it waits, and the RLock() of GetError waits behind it
LockWaits ==
    /\ mu = "read"
    /\ mu' = "dead"
    /\ UNCHANGED <<buildVars, stateVars, Logs, sup, fz, fin, reqs,
                   api, opsLeft, readerVars, histVars, remoteStarts>>

\* line 263 of the result handler: st.Mu.Lock() behind a read lock
ResultLockWaits(r) ==
    /\ BagIn(r, reqs)
    /\ r.pc = "lock"
    /\ LockWaits

(***************************************************************************)
(* BuildState.Finish, called by `c` with the argument fin[c].err.          *)
(***************************************************************************)
FinFrame(pc, e, lines) == [pc |-> pc, err |-> e, lines |-> lines]

\* logTaskSummary, lines 271-291: the lines it is going to append, computed
\* from its copies of Results and TaskArnByID
SummaryLines(snap, arns) ==
    LET keys == SortStrings(DOMAIN snap \cup arns)
    IN [j \in 1..Len(keys) |->
          Entry("task-summary", keys[j], SummaryStatus(snap, keys[j]), TRUE)]

\* variant: a Finish without the early return of lines 298-301
FinishProceedsAlways(isFinished) == TRUE

\* Finish, lines 298-301: does this call go on past the `finished` check?
FinishProceeds(isFinished) == ~isFinished

\* lines 296-313: the first critical section
FinishEnter(c) ==
    /\ CanLock
    /\ fin[c].pc = "lock1"
    /\ IF FinishProceeds(finished)
       THEN /\ finished' = TRUE
            /\ FirstError' = IF FirstError # Nil THEN FirstError ELSE fin[c].err
            /\ recorded' = FirstRecorded(recorded, fin[c].err)
            /\ fin' = [fin EXCEPT ![c].pc = "snapshot",
                                  ![c].err = IF FirstError # Nil THEN FirstError
                                             ELSE fin[c].err]
       ELSE /\ fin' = [fin EXCEPT ![c].pc = "done"]
            /\ UNCHANGED <<finished, FirstError, recorded>>
    /\ UNCHANGED <<constVars, Results, ResultsReceived, closed, TaskArnByID,
                   Logs, sup, fz, reqs, api, opsLeft, readerVars,
                   closeCount, verdicts, verdict, manifestCalls, remoteStarts>>

\* logTaskSummary, lines 246-269: the copies taken under the read lock
FinishSnapshot(c) ==
    /\ CanRLock
    /\ fin[c].pc = "snapshot"
    /\ fin' = [fin EXCEPT ![c].pc = "summary",
                          ![c].lines = SummaryLines(Results, TaskArnByID)]
    /\ UNCHANGED <<constVars, stateVars, Logs, sup, fz, reqs, api,
                   opsLeft, readerVars, histVars, remoteStarts>>

\* logTaskSummary, lines 271-291: one line per task id
FinishSummaryLine(c) ==
    /\ CanRLock
    /\ fin[c].pc = "summary"
    /\ fin[c].lines # <<>>
    /\ SendReady(Logs, closed)
    /\ Logs' = ChanSend(Logs, closed, Head(fin[c].lines))
    /\ fin' = [fin EXCEPT ![c].lines = Tail(fin[c].lines)]
    /\ UNCHANGED <<constVars, stateVars, sup, fz, reqs, api, opsLeft,
                   readerVars, histVars, remoteStarts>>

\* lines 317-323, first append: "build finished with error" / "successfully"
FinishOutcomeLine(c) ==
    /\ CanRLock
    /\ fin[c].pc = "summary"
    /\ fin[c].lines = <<>>
    /\ SendReady(Logs, closed)
    /\ Logs' = ChanSend(Logs, closed,
                  Entry(IF fin[c].err # Nil THEN "build finished with error"
                        ELSE "build finished successfully", "", "", TRUE))
    /\ fin' = [fin EXCEPT ![c].pc = "final"]
    /\ UNCHANGED <<constVars, stateVars, sup, fz, reqs, api, opsLeft,
                   readerVars, histVars, remoteStarts>>

\* lines 317-323, second append: the verdict line
FinishVerdictLine(c) ==
    /\ CanRLock
    /\ fin[c].pc = "final"
    /\ SendReady(Logs, closed)
    /\ Logs' = ChanSend(Logs, closed,
                  Entry(IF fin[c].err # Nil THEN "BUILD FAILED"
                        ELSE "BUILD SUCCEEDED", "", "", TRUE))
    /\ verdict' = IF fin[c].err # Nil THEN "BUILD FAILED" ELSE "BUILD SUCCEEDED"
    /\ verdicts' = verdicts + 1
    /\ fin' = [fin EXCEPT ![c].pc = "close"]
    /\ UNCHANGED <<constVars, stateVars, sup, fz, reqs, api, opsLeft,
                   readerVars, recorded, closeCount, manifestCalls, remoteStarts>>

\* lines 325-331: the second critical section
FinishClose(c) ==
    /\ CanLock
    /\ fin[c].pc = "close"
    /\ IF ~closed
       THEN closed' = TRUE /\ closeCount' = closeCount + 1
       ELSE UNCHANGED <<closed, closeCount>>
    /\ fin' = [fin EXCEPT ![c].pc = "done"]
    /\ UNCHANGED <<constVars, Results, ResultsReceived, FirstError, finished,
                   TaskArnByID, Logs, sup, fz, reqs, api, opsLeft,
                   readerVars, recorded, verdicts, verdict, manifestCalls, remoteStarts>>

FinishStep(c) ==
    \/ FinishEnter(c)
    \/ FinishSnapshot(c)
    \/ FinishSummaryLine(c)
    \/ FinishOutcomeLine(c)
    \/ FinishVerdictLine(c)
    \/ FinishClose(c)

(***************************************************************************)
(* The public methods of BuildState called by its clients.                 *)
(***************************************************************************)
\* SetResult, lines 207-217: the map after SetResult(t, ...)
StoreResult(results, t, v) == Put(results, t, v)

\* BuildState.SetResult(t, arch, d, s, errMsg)
SetResult(t, d, s) ==
    /\ CanLock
    /\ opsLeft > 0
    /\ opsLeft' = opsLeft - 1
    /\ Results' = StoreResult(Results, t, TaskResult(d, s))
    /\ ResultsReceived' = ResultsReceived + 1
    /\ FirstError' = IF ~s /\ FirstError = Nil THEN TaskFailedErr(t) ELSE FirstError
    /\ recorded' = IF ~s THEN FirstRecorded(recorded, TaskFailedErr(t)) ELSE recorded
    /\ UNCHANGED <<constVars, finished, closed, TaskArnByID, Logs, sup, fz,
                   fin, reqs, api, readerVars, closeCount, verdicts,
                   verdict, manifestCalls, remoteStarts>>

\* BuildState.SetError(e)
SetError(e) ==
    /\ CanLock
    /\ opsLeft > 0
    /\ opsLeft' = opsLeft - 1
    /\ FirstError' = Sticky(FirstError, e)
    /\ recorded' = FirstRecorded(recorded, e)
    /\ UNCHANGED <<constVars, Results, ResultsReceived, finished, closed,
                   TaskArnByID, Logs, sup, fz, fin, reqs, api,
                   readerVars, closeCount, verdicts, verdict, manifestCalls, remoteStarts>>

\* a client calls SetResult or SetError while the stream writer holds the
\* read lock: the Lock() of line 204 or 341 waits
ApiLockWaits ==
    /\ opsLeft > 0
    /\ opsLeft' = opsLeft - 1
    /\ mu = "read"
    /\ mu' = "dead"
    /\ UNCHANGED <<buildVars, stateVars, Logs, sup, fz, fin, reqs,
                   api, readerVars, histVars, remoteStarts>>

\* the Finish of a client reaches the Lock() of line 296 or 325 while the
\* stream writer holds the read lock
FinishLockWaits(c) ==
    /\ fin[c].pc \in {"lock1", "close"}
    /\ LockWaits

\* a client calls BuildState.Finish(e)
FinishCall(c, e) ==
    /\ opsLeft > 0
    /\ opsLeft' = opsLeft - 1
    /\ fin[c].pc \in {"idle", "done"}
    /\ fin' = [fin EXCEPT ![c] = FinFrame("lock1", e, <<>>)]
    /\ UNCHANGED <<constVars, stateVars, Logs, sup, fz, reqs, api,
                   readerVars, histVars, remoteStarts>>

\* a client calls BuildState.AppendLog: lines 165-171
AppendLogCheck ==
    /\ CanRLock
    /\ opsLeft > 0
    /\ opsLeft' = opsLeft - 1
    /\ api = "idle"
    /\ api' = IF PassesFinishedCheck(finished, FALSE) THEN "send" ELSE "idle"
    /\ UNCHANGED <<constVars, stateVars, Logs, sup, fz, fin, reqs,
                   readerVars, histVars, remoteStarts>>

\* a client calls BuildState.AppendLog: lines 173-178
AppendLogSend ==
    /\ api = "send"
    /\ SendReady(Logs, closed)
    /\ Logs' = ChanSend(Logs, closed, PubEntry("log"))
    /\ api' = "idle"
    /\ UNCHANGED <<constVars, stateVars, sup, fz, fin, reqs, opsLeft,
                   readerVars, histVars, remoteStarts>>

(***************************************************************************)
(* StartBuild: the supervisor goroutine of the effective config at i.      *)
(***************************************************************************)
SupLogPcs == {"start", "ok", "failed", "clean failed", "panic"}

\* variant: a supervisor without the deferred recover() of lines 136-142,
\* which a panic of the executor ends before wg.Done()
SupNextNoRecover(pc) ==
    CASE pc = "start" -> "dispatch"
      [] pc = "ok" -> "done"
      [] pc = "failed" -> "set failed"
      [] pc = "clean failed" -> "set failed"
      [] pc = "panic" -> "crashed"
      [] pc = "set failed" -> "done"
      [] pc = "set panic" -> "done"

\* the supervisor's position after the step at pc (lines 134-180)
SupNext(pc) ==
    CASE pc = "start" -> "dispatch"
      [] pc = "ok" -> "done"
      [] pc = "failed" -> "set failed"
      [] pc = "clean failed" -> "set failed"
      [] pc = "panic" -> "set panic"
      [] pc = "set failed" -> "done"
      [] pc = "set panic" -> "done"

\* AppendLog as the supervisors and the finalizer call it: the channel after
\* the call
PublicAppend(logs, isFinished, isClosed) ==
    IF PassesFinishedCheck(isFinished, FALSE)
    THEN ChanSend(logs, isClosed, PubEntry("log"))
    ELSE logs

\* lines 147, 178, 175 and 139: st.AppendLog of the supervisor
SupLog(i) ==
    /\ sup[i] \in SupLogPcs
    /\ SendReady(Logs, closed)
    /\ Logs' = PublicAppend(Logs, finished, closed)
    /\ sup' = [sup EXCEPT ![i] = SupNext(sup[i])]
    /\ UNCHANGED <<constVars, stateVars, fz, fin, reqs, api, opsLeft,
                   readerVars, histVars, remoteStarts>>

\* how the remote task of a dispatch ends: its agent exits with code 0, or
\* the executor meets an anomaly of the task (the start fails, the deadline
\* of the supervisor passes, the task cannot be described, the agent exits
\* with another code), or the executor panics
Remotes == {"clean", "anomaly", "panic"}

\* ECSExecutor.RunTaskForArch, lines 406-428 with waitTaskStopped and
\* checkTaskExitCode (lines 458-549): what the supervisor gets back; after
\* exit code 0 it is nil (line 542)
RunTaskForArch(remote) ==
    CASE remote = "clean" -> "ok"
      [] remote = "anomaly" -> "failed"
      [] remote = "panic" -> "panic"

\* K8sExecutor.RunTask, lines 284-315: what the supervisor gets back; when
\* the job watcher is done, it is st.GetError() if st.HasError() (lines
\* 306-310), whoever set that error
RunTask(remote, firstError) ==
    CASE remote = "clean" -> IF firstError # Nil THEN "clean failed" ELSE "ok"
      [] remote = "anomaly" -> "failed"
      [] remote = "panic" -> "panic"

\* lines 150-172: the executor the switch of the supervisor calls for a
\* platform, "none" where it sets execErr without a call: the K8s executor
\* is called only if o.k8s is not nil (line 165), and a platform that is
\* neither "ecs" nor "k8s" has no executor (line 171); variant: "k8s" is
\* dispatched without the test of line 165
RoutedUnchecked(platform, k8sOk) ==
    CASE platform = "ecs" -> "ecs"
      [] platform = "k8s" -> "k8s"
      [] OTHER -> "none"

Routed(platform, k8sOk) ==
    CASE platform = "ecs" -> "ecs"
      [] platform = "k8s" -> IF k8sOk THEN "k8s" ELSE "none"
      [] OTHER -> "none"

\* lines 149-172: the executor starts the task (the ECS executor stores the
\* handle of the task in TaskArnByID), and then returns nil or an error, or
\* panics; without an executor execErr is the error of line 166 or 171
SupDispatch(i, remote, handle) ==
    /\ sup[i] = "dispatch"
    /\ LET to == Routed(effectiveList[i].platform, k8sConfigured)
       IN /\ handle = (to = "ecs")
          /\ sup' = [sup EXCEPT ![i] =
                        CASE to = "ecs" -> RunTaskForArch(remote)
                          [] to = "k8s" -> RunTask(remote, FirstError)
                          [] OTHER -> "failed"]
          /\ remoteStarts' = IF to = "none" THEN remoteStarts
                             ELSE remoteStarts \cup {<<i, to>>}
    /\ TaskArnByID' = IF handle THEN TaskArnByID \cup {TaskIdAt(i)} ELSE TaskArnByID
    /\ UNCHANGED <<constVars, Results, ResultsReceived, FirstError, finished,
                   closed, Logs, fz, fin, reqs, api, opsLeft, readerVars,
                   histVars>>

\* line 176 and line 140: st.SetError(execErr), st.SetError(err) after a panic;
\* after "clean failed" execErr is the error FirstError holds already, which
\* SetError keeps as it keeps it for every other error
SupSetError(i) ==
    /\ sup[i] \in {"set failed", "set panic"}
    /\ LET e == IF sup[i] = "set failed" THEN ExecErr
                ELSE PanicErr(TaskIdAt(i))
       IN /\ FirstError' = Sticky(FirstError, e)
          /\ recorded' = FirstRecorded(recorded, e)
    /\ sup' = [sup EXCEPT ![i] = SupNext(sup[i])]
    /\ UNCHANGED <<constVars, Results, ResultsReceived, finished, closed,
                   TaskArnByID, Logs, fz, fin, reqs, api, opsLeft,
                   readerVars, closeCount, verdicts, verdict, manifestCalls, remoteStarts>>

(***************************************************************************)
(* StartBuild: the finalizer goroutine (lines 183-241) and createManifest. *)
(***************************************************************************)
FzLogPcs == {"all finished", "waiting", "timeout", "starting manifest",
             "createManifest", "looking", "adding", "creating",
             "creating list", "manifest failed", "manifest created"}

FzNext(pc) ==
    CASE pc = "all finished" -> "loop"
      [] pc = "waiting" -> "loop"
      [] pc = "timeout" -> "set timeout"
      [] pc = "starting manifest" -> "createManifest"
      [] pc = "createManifest" -> "iterate"
      [] pc = "looking" -> "lookup"
      [] pc = "adding" -> "advance"
      [] pc = "creating" -> "creating list"
      [] pc = "creating list" -> "push"
      [] pc = "manifest failed" -> "set manifest"
      [] pc = "manifest created" -> "call finish"

\* st.AppendLog of the finalizer, of createManifest and of CreateManifestList
FzLog ==
    /\ fz.pc \in FzLogPcs
    /\ SendReady(Logs, closed)
    /\ Logs' = PublicAppend(Logs, finished, closed)
    /\ fz' = [fz EXCEPT !.pc = FzNext(fz.pc)]
    /\ UNCHANGED <<constVars, stateVars, sup, fin, reqs, api, opsLeft,
                   readerVars, histVars, remoteStarts>>

\* variant: a wait that ends with the first supervisor that returns
WgWaitReturnsEarly(s) == \E i \in DOMAIN s : s[i] = "done"

\* lines 125, 135 and 184: every supervisor is added to wg before it starts
\* and calls wg.Done() when it returns; wg.Wait() returns when all have
WgWaitReturns(s) == \A i \in DOMAIN s : s[i] = "done"

\* line 184: wg.Wait() returns when every supervisor has returned
FzWait ==
    /\ fz.pc = "wait"
    /\ WgWaitReturns(sup)
    /\ fz' = [fz EXCEPT !.pc = "all finished"]
    /\ UNCHANGED <<constVars, stateVars, Logs, sup, fin, reqs, api,
                   opsLeft, readerVars, histVars, remoteStarts>>

\* lines 201-203: the wait ends because every result is there
FzLoopAll ==
    /\ fz.pc = "loop"
    /\ AllResultsReceived
    /\ fz' = [fz EXCEPT !.pc = "check"]
    /\ UNCHANGED <<constVars, stateVars, Logs, sup, fin, reqs, api,
                   opsLeft, readerVars, histVars, remoteStarts>>

\* lines 204-206: the wait ends because BUILD_RESULT_TIMEOUT has passed
FzLoopTimeout ==
    /\ fz.pc = "loop"
    /\ ~AllResultsReceived
    /\ fz' = [fz EXCEPT !.pc = "check"]
    /\ UNCHANGED <<constVars, stateVars, Logs, sup, fin, reqs, api,
                   opsLeft, readerVars, histVars, remoteStarts>>

\* lines 208-218: one more round of the wait, with its "waiting" log line
FzLoopRound ==
    /\ fz.pc = "loop"
    /\ ~AllResultsReceived
    /\ fz' = [fz EXCEPT !.pc = "waiting"]
    /\ UNCHANGED <<constVars, stateVars, Logs, sup, fin, reqs, api,
                   opsLeft, readerVars, histVars, remoteStarts>>

\* line 221: if !st.AllResultsReceived()
FzCheck ==
    /\ fz.pc = "check"
    /\ fz' = [fz EXCEPT !.pc = IF ~AllResultsReceived THEN "read" ELSE "manifest?"]
    /\ UNCHANGED <<constVars, stateVars, Logs, sup, fin, reqs, api,
                   opsLeft, readerVars, histVars, remoteStarts>>

\* lines 222-224: the timeout error, with the counter read under the lock
FzRead ==
    /\ fz.pc = "read"
    /\ fz' = [fz EXCEPT !.pc = "timeout",
                        !.err = TimeoutErr(ResultsReceived, TotalTasks)]
    /\ UNCHANGED <<constVars, stateVars, Logs, sup, fin, reqs, api,
                   opsLeft, readerVars, histVars, remoteStarts>>

\* line 226 and line 234: st.SetError(err)
FzSetError ==
    /\ fz.pc \in {"set timeout", "set manifest"}
    /\ FirstError' = Sticky(FirstError, fz.err)
    /\ recorded' = FirstRecorded(recorded, fz.err)
    /\ fz' = [fz EXCEPT !.pc = IF fz.pc = "set timeout" THEN "manifest?"
                               ELSE "call finish"]
    /\ UNCHANGED <<constVars, Results, ResultsReceived, finished, closed,
                   TaskArnByID, Logs, sup, fin, reqs, api, opsLeft,
                   readerVars, closeCount, verdicts, verdict, manifestCalls, remoteStarts>>

\* variant: the check of line 229 without !st.HasError()
WantsManifestAnyError(single, hasErr) == ~single

\* line 229: is manifest assembly to be invoked?
WantsManifest(single, hasErr) == ~single /\ ~hasErr

\* line 229: if !isSingleArch && !st.HasError()
FzManifestCheck ==
    /\ fz.pc = "manifest?"
    /\ IF WantsManifest(IsSingleArch, HasError)
       THEN /\ fz' = [fz EXCEPT !.pc = "starting manifest", !.k = 1]
            /\ manifestCalls' = manifestCalls + 1
       ELSE /\ fz' = [fz EXCEPT !.pc = "call finish"]
            /\ UNCHANGED manifestCalls
    /\ UNCHANGED <<constVars, stateVars, Logs, sup, fin, reqs, api,
                   opsLeft, readerVars, recorded, closeCount, verdicts, verdict, remoteStarts>>

\* variant: createManifest without the test of lines 275-277
SkipsNone(ef) == FALSE

\* createManifest, lines 275-277: a no-push config is passed over
SkipsConfig(ef) == ef.noPush

\* createManifest, lines 274-277: the loop head, skipping no-push configs
CmIterate ==
    /\ fz.pc = "iterate"
    /\ fz' = IF fz.k > Len(effectiveList) THEN [fz EXCEPT !.pc = "creating"]
             ELSE IF SkipsConfig(effectiveList[fz.k]) THEN [fz EXCEPT !.k = fz.k + 1]
             ELSE [fz EXCEPT !.pc = "looking"]
    /\ UNCHANGED <<constVars, stateVars, Logs, sup, fin, reqs, api,
                   opsLeft, readerVars, histVars, remoteStarts>>

\* createManifest, lines 289-300: the result of the task, read under the lock
CmLookup ==
    /\ fz.pc = "lookup"
    /\ LET t == TaskIdAt(fz.k)
       IN fz' = IF t \notin DOMAIN Results
                THEN [fz EXCEPT !.pc = "manifest failed",
                                !.err = ManifestErr("missing result", t)]
                ELSE IF ~Results[t].success
                THEN [fz EXCEPT !.pc = "manifest failed",
                                !.err = ManifestErr("build failed", t)]
                ELSE [fz EXCEPT !.pc = "adding"]
    /\ UNCHANGED <<constVars, stateVars, Logs, sup, fin, reqs, api,
                   opsLeft, readerVars, histVars, remoteStarts>>

\* createManifest, lines 316-321: the image is added, the loop goes on
CmAdvance ==
    /\ fz.pc = "advance"
    /\ fz' = [fz EXCEPT !.pc = "iterate", !.k = fz.k + 1,
                        !.images = Append(fz.images,
                                          [idx |-> fz.k, key |-> TaskIdAt(fz.k)])]
    /\ UNCHANGED <<constVars, stateVars, Logs, sup, fin, reqs, api,
                   opsLeft, readerVars, histVars, remoteStarts>>

\* registry.CreateManifestList returns: the list was pushed, or an error
CmPush(ok) ==
    /\ fz.pc = "push"
    /\ fz' = IF ok THEN [fz EXCEPT !.pc = "manifest created"]
             ELSE [fz EXCEPT !.pc = "manifest failed",
                             !.err = ManifestErr("push failed", "")]
    /\ UNCHANGED <<constVars, stateVars, Logs, sup, fin, reqs, api,
                   opsLeft, readerVars, histVars, remoteStarts>>

\* line 240: st.Finish(st.GetError())
FzCallFinish ==
    /\ fz.pc = "call finish"
    /\ fin' = [fin EXCEPT !["fz"] = FinFrame("lock1", FirstError, <<>>)]
    /\ fz' = [fz EXCEPT !.pc = "finishing"]
    /\ UNCHANGED <<constVars, stateVars, Logs, sup, reqs, api,
                   opsLeft, readerVars, histVars, remoteStarts>>

\* Finish has returned: the finalizer goroutine ends
FzEnd ==
    /\ fz.pc = "finishing"
    /\ fin["fz"].pc = "done"
    /\ fz' = [fz EXCEPT !.pc = "end"]
    /\ UNCHANGED <<constVars, stateVars, Logs, sup, fin, reqs, api,
                   opsLeft, readerVars, histVars, remoteStarts>>

(***************************************************************************)
(* Specifications.                                                         *)
(***************************************************************************)
\* the steps of the supervisor of the effective config at i
SupervisorAt(i) ==
    \/ SupLog(i)
    \/ \E r \in Remotes, h \in BOOLEAN : SupDispatch(i, r, h)
    \/ SupSetError(i)

Supervisor == \E i \in DOMAIN sup : SupervisorAt(i)

Finalizer ==
    \/ FzLog
    \/ FzWait
    \/ FzLoopAll
    \/ FzLoopTimeout
    \/ FzLoopRound
    \/ FzCheck
    \/ FzRead
    \/ FzSetError
    \/ FzManifestCheck
    \/ CmIterate
    \/ CmLookup
    \/ CmAdvance
    \/ \E ok \in BOOLEAN : CmPush(ok)
    \/ FzCallFinish
    \/ FinishStep("fz")
    \/ FzEnd

\* the result handler, for requests whose digest is one of ds
ResultHandler(ds, cost) ==
    \/ ResultArrive(cost)
    \/ \E r \in BagToSet(reqs) :
          \/ ResultLogCheck(r)
          \/ ResultLogSend(r)
          \/ ResultLockWaits(r)
          \/ \E t \in CallbackIds, d \in ds, s \in BOOLEAN : ResultLock(r, t, d, s)

LogStream == ReaderForward \/ ReaderRLock \/ ReaderTrailer

\* the running controller: one accepted build, its workers and its client.
\* Outside the duplicate check of the result handler the controller never
\* looks at a digest: the workers of this specification report one digest.
Next == Supervisor \/ Finalizer \/ ResultHandler({"sha256:A"}, 0) \/ LogStream

Spec == Init /\ [][Next]_vars

\* the goroutines of StartBuild are scheduled, and the clock makes the
\* finalizer's bounded wait end; the workers and the client of the log stream
\* are not obliged to do anything
SpecFair ==
    /\ Spec
    /\ WF_vars(Supervisor)
    /\ WF_vars(Finalizer)
    /\ SF_vars(FzLoopAll \/ FzLoopTimeout)

\* the Build State under arbitrary concurrent clients of its public methods
\* and of the result callback, which make MaxOps calls in all
ApiClient ==
    \/ \E t \in CallbackIds, d \in Digests, s \in BOOLEAN : SetResult(t, d, s)
    \/ \E e \in {Nil, ClientErr} : SetError(e)
    \/ \E c \in {"a1", "a2"}, e \in {Nil, ClientErr} : FinishCall(c, e)
    \/ AppendLogCheck
    \/ AppendLogSend
    \/ \E c \in {"a1", "a2"} : FinishStep(c)
    \/ \E c \in {"a1", "a2"} : FinishLockWaits(c)
    \/ ApiLockWaits

NextApi == ApiClient \/ ResultHandler(Digests, 1) \/ LogStream

\* the state of a single-task build, as NewBuildState returns it
InitApi == Init /\ Len(effectiveList) = 1

SpecApi == InitApi /\ [][NextApi]_vars

\* effective lists for manifest assembly: two pushing tasks of one arch, and
\* pushing tasks of two archs next to a task that does not push
AssemblyLists ==
    { <<Task("amd64", FALSE, "ecs"), Task("amd64", FALSE, "ecs")>>,
      <<Task("amd64", FALSE, "ecs"), Task("arm", TRUE, "ecs"),
        Task("arm64", FALSE, "ecs")>> }

\* a build whose executors have all returned nil before any result callback
\* has come in (the ECS executor does not wait for the callback): every
\* supervisor is done, the handles are stored, the log is drained
InitAssembly ==
    /\ cfg = NilConfig
    /\ plan = NoPlan
    /\ ret = [id |-> BuildId, err |-> Nil]
    /\ states = (BuildId :> StateRef(BuildId, 1))
    /\ got = NoGet
    /\ allocs = 1
    /\ lastReg = (BuildId :> StateRef(BuildId, 1))
    /\ mu = "free"
    /\ resp = NoResp
    /\ call = NoCall
    /\ IngestStarted = {}
    /\ IngestDone = {}
    /\ IngestDoneCt = 0
    /\ doneTrue = 0
    /\ effectiveList \in AssemblyLists
    /\ Results = EmptyResults
    /\ ResultsReceived = 0
    /\ FirstError = Nil
    /\ finished = FALSE
    /\ closed = FALSE
    /\ Logs = <<>>
    /\ TaskArnByID = BuildTaskIds
    /\ sup = [i \in 1..Len(effectiveList) |-> "done"]
    /\ fz = [pc |-> "wait", err |-> Nil, k |-> 1, images |-> <<>>]
    /\ fin = [c \in {"fz", "a1", "a2"} |->
                [pc |-> "idle", err |-> Nil, lines |-> <<>>]]
    /\ reqs = EmptyBag
    /\ api = "idle"
    /\ opsLeft = MaxOps
    /\ trailer = "none"
    /\ recorded = Nil
    /\ closeCount = 0
    /\ verdicts = 0
    /\ verdict = "none"
    /\ manifestCalls = 0
    /\ k8sConfigured = TRUE
    /\ k8sRun = NoRun
    /\ ecsRun = NoRun
    /\ taskDef = NoTaskDef
    /\ remoteStarts = {<<i, "ecs">> : i \in 1..Len(effectiveList)}

\* the finalizer and the result callbacks of such a build
NextAssembly == Finalizer \/ ResultHandler({"sha256:A"}, 0)

SpecAssembly == InitAssembly /\ [][NextAssembly]_vars

(***************************************************************************)
(* internal/config: BuildEffectiveList.  A manifest is reduced to the      *)
(* fields StartBuild branches on and to the two maps the resolution        *)
(* merges; a nil pointer is "nil", an absent string is "".                 *)
(***************************************************************************)
\* m[k] = v on a Go map
MapSet(m, k, v) == [x \in DOMAIN m \cup {k} |-> IF x = k THEN v ELSE m[x]]

\* for k, v := range src { dst[k] = v }: the keys are visited in some order,
\* which the result does not depend on since each key is assigned once
RECURSIVE CopyInto(_, _, _)
CopyInto(dst, src, keys) ==
    IF keys = {} THEN dst
    ELSE LET k == CHOOSE x \in keys : TRUE
         IN CopyInto(MapSet(dst, k, src[k]), src, keys \ {k})

\* variant: the global map copied after the bake map
MergeMapsGlobalLast(global, bake) ==
    CopyInto(CopyInto(EmptyMap, bake, DOMAIN bake), global, DOMAIN global)

\* lines 191-197 (Env) and lines 229-235 (BuildArgs): a fresh map, the
\* global map copied into it, then the bake map
MergeMaps(global, bake) ==
    CopyInto(CopyInto(EmptyMap, global, DOMAIN global), bake, DOMAIN bake)

\* lines 304-309
boolPtr(override, global) == IF override # "nil" THEN override ELSE global

\* lines 172-178
EffectivePlatform(b, global) ==
    IF b.Platform # "" THEN b.Platform
    ELSE IF global.Platform # "" THEN global.Platform
    ELSE "ecs"

\* lines 180-184, where one of the two has an arch
EffectiveArch(b, global) == IF b.Arch # "" THEN b.Arch ELSE global.Arch

\* variant: an entry without arch is resolved all the same
ArchMissingNever(b, global) == FALSE

\* lines 180-186: neither the bake entry nor the global section has an arch
ArchMissing(b, global) == b.Arch = "" /\ global.Arch = ""

\* variant: the global list followed by the list of the bake entry
ListAppended(bakeList, globalList) == globalList \o bakeList

\* lines 211-215 (KanikoCredentials) and lines 271-275 (IgnorePath)
ListOrGlobal(bakeList, globalList) ==
    IF Len(bakeList) > 0 THEN bakeList ELSE globalList

\* variant: an entry without destination inherits the global one
EffectiveDestinationInherited(b, global) ==
    IF b.Destination # "" THEN b.Destination ELSE global.Destination

\* lines 283-287
EffectiveDestination(b, global) ==
    IF b.Destination # "" THEN b.Destination ELSE ""

\* lines 170-289: the EffectiveConfig of one bake entry; noPush is what
\* StartBuild reads of ef.NoPush (orchestrator.go line 90: set and true)
Effective(b, global) ==
    [platform |-> EffectivePlatform(b, global),
     arch |-> EffectiveArch(b, global),
     noPush |-> boolPtr(b.NoPush, global.NoPush) = "true",
     Env |-> MergeMaps(global.Env, b.Env),
     BuildArgs |-> MergeMaps(global.BuildArgs, b.BuildArgs),
     KanikoCredentials |-> ListOrGlobal(b.KanikoCredentials,
                                        global.KanikoCredentials),
     IgnorePath |-> ListOrGlobal(b.IgnorePath, global.IgnorePath),
     Destination |-> EffectiveDestination(b, global)]

ArchErr == Err("arch not specified in either global or bake section", "", 0, 0)
NilConfigErr == Err("nil config", "", 0, 0)

\* lines 168-292: the loop over cfg.Bake with `list` built so far
RECURSIVE ResolveFrom(_, _, _)
ResolveFrom(bake, global, list) ==
    IF bake = <<>> THEN [list |-> list, err |-> Nil]
    ELSE IF ArchMissing(Head(bake), global)
         THEN [list |-> <<>>, err |-> ArchErr]
         ELSE ResolveFrom(Tail(bake), global,
                          Append(list, Effective(Head(bake), global)))

\* lines 157-293
BuildEffectiveList(c) ==
    IF c.nil THEN [list |-> <<>>, err |-> NilConfigErr]
    ELSE ResolveFrom(c.Bake, c.Global, <<>>)


Globals ==
    { Section("", "", "nil", EmptyMap, EmptyMap),
      Kaniko(Section("", "amd64", "nil", ("K1" :> "g"), EmptyMap),
             <<"cg1", "cg2">>, <<>>, "reg/g:v1"),
      Kaniko(Section("k8s", "", "true", ("K1" :> "g") @@ ("K2" :> "g"),
                     ("A1" :> "g")),
             <<>>, <<"ig1">>, ""),
      Kaniko(Section("k8s", "amd64", "nil", EmptyMap,
                     ("A1" :> "g") @@ ("A2" :> "g")),
             <<"cg1">>, <<"ig1", "ig2">>, "reg/g:v1") }

Bakes ==
    { Section("", "", "nil", EmptyMap, EmptyMap),
      Kaniko(Section("ecs", "arm64", "nil", ("K1" :> "b"), EmptyMap),
             <<"cb1">>, <<>>, "reg/b:v2"),
      Kaniko(Section("", "amd64", "false", ("K2" :> "b") @@ ("K3" :> "b"),
                     ("A1" :> "b")),
             <<>>, <<"ib1", "ib2">>, ""),
      Kaniko(Section("gcp", "", "true", EmptyMap,
                     ("A2" :> "b") @@ ("A3" :> "b")),
             <<"cb1", "cb2">>, <<"ib1">>, "reg/b:v2") }

\* longest bake list of a manifest of the model
MaxBake == 2

RECURSIVE SeqsUpTo(_, _)
SeqsUpTo(S, n) ==
    IF n = 0 THEN {<<>>}
    ELSE LET shorter == SeqsUpTo(S, n - 1)
         IN shorter \cup {Append(q, x) : q \in shorter, x \in S}

Configs ==
    {NilConfig} \cup
    {[nil |-> FALSE, Global |-> g, Bake |-> bk] : g \in Globals, bk \in SeqsUpTo(Bakes, MaxBake)}

\* a caller hands a manifest to BuildEffectiveList
CallResolve ==
    /\ plan = NoPlan
    /\ plan' = BuildEffectiveList(cfg)
    /\ UNCHANGED <<cfg, ret, storeVars, execVars, mu, resp, call, ingestVars, effectiveList,
                   stateVars, Logs, sup, fz, fin, reqs, api, opsLeft, readerVars, histVars, remoteStarts>>

\* no build has been started: the variables of a build at their zero values
NoBuild ==
    /\ mu = "free"
    /\ resp = NoResp
    /\ call = NoCall
    /\ IngestStarted = {}
    /\ IngestDone = {}
    /\ IngestDoneCt = 0
    /\ doneTrue = 0
    /\ ret = [id |-> "", err |-> Nil]
    /\ effectiveList = <<>>
    /\ Results = EmptyResults
    /\ ResultsReceived = 0
    /\ FirstError = Nil
    /\ finished = FALSE
    /\ closed = FALSE
    /\ Logs = <<>>
    /\ TaskArnByID = {}
    /\ sup = <<>>
    /\ fz = [pc |-> "wait", err |-> Nil, k |-> 1, images |-> <<>>]
    /\ fin = [c \in {"fz", "a1", "a2"} |->
                [pc |-> "idle", err |-> Nil, lines |-> <<>>]]
    /\ reqs = EmptyBag
    /\ api = "idle"
    /\ opsLeft = MaxOps
    /\ trailer = "none"
    /\ recorded = Nil
    /\ closeCount = 0
    /\ verdicts = 0
    /\ verdict = "none"
    /\ manifestCalls = 0
    /\ k8sRun = NoRun
    /\ ecsRun = NoRun
    /\ taskDef = NoTaskDef
    /\ remoteStarts = {}

\* NewStore, lines 65-69
EmptyStore ==
    /\ states = EmptyMap
    /\ got = NoGet
    /\ allocs = 0
    /\ lastReg = EmptyMap

InitConfig ==
    /\ cfg \in Configs
    /\ plan = NoPlan
    /\ EmptyStore
    /\ NoBuild
    /\ k8sConfigured = TRUE

NextConfig == CallResolve

SpecConfig == InitConfig /\ [][NextConfig]_vars

(***************************************************************************)
(* internal/state: the Store (part_006 lines 59-127).                      *)
(***************************************************************************)
\* the keys and build ids of the model
Ids == {BuildId, OtherId}

\* number of BuildStates the clients of the Store allocate
MaxStates == 3

\* delete(m, k) on a Go map
MapDelete(m, k) == [x \in DOMAIN m \ {k} |-> m[x]]

Miss(key) == [key |-> key, ID |-> "", ptr |-> 0, ok |-> FALSE, called |-> TRUE]
Hit(key, st) == [key |-> key, ID |-> st.ID, ptr |-> st.ptr, ok |-> TRUE, called |-> TRUE]

\* variant: Get without the comparison of lines 102-105
StoreGetUnchecked(m, key) ==
    IF key \notin DOMAIN m THEN Miss(key) ELSE Hit(key, m[key])

\* Store.Get, lines 88-109
StoreGet(m, key) ==
    IF key \notin DOMAIN m THEN Miss(key)
    ELSE IF m[key].ID # key THEN Miss(key)
    ELSE Hit(key, m[key])

\* Store.Register, lines 71-86: a mismatch of st.ID and id is logged only
StoreRegister(m, key, st) == MapSet(m, key, st)

\* a client registers a new BuildState built with the id `id` under `key`
Register(key, id) ==
    /\ allocs < MaxStates
    /\ allocs' = allocs + 1
    /\ states' = StoreRegister(states, key, StateRef(id, allocs + 1))
    /\ lastReg' = MapSet(lastReg, key, StateRef(id, allocs + 1))
    /\ UNCHANGED <<cfg, plan, ret, got, execVars, mu, resp, call, ingestVars, effectiveList, stateVars,
                   Logs, sup, fz, fin, reqs, api, opsLeft, readerVars,
                   histVars, remoteStarts>>

\* Store.Delete, lines 111-116
Delete(key) ==
    /\ states' = MapDelete(states, key)
    /\ lastReg' = MapDelete(lastReg, key)
    /\ UNCHANGED <<cfg, plan, ret, got, allocs, execVars, mu, resp, call, ingestVars, effectiveList,
                   stateVars, Logs, sup, fz, fin, reqs, api, opsLeft,
                   readerVars, histVars, remoteStarts>>

\* a client calls Store.Get
Get(key) ==
    /\ got' = StoreGet(states, key)
    /\ UNCHANGED <<cfg, plan, ret, states, allocs, lastReg, execVars, mu, resp, call, ingestVars,
                   effectiveList, stateVars, Logs, sup, fz, fin, reqs, api, opsLeft,
                   readerVars, histVars, remoteStarts>>

InitStore ==
    /\ cfg = NilConfig
    /\ plan = NoPlan
    /\ EmptyStore
    /\ NoBuild
    /\ k8sConfigured = TRUE

NextStore ==
    \E key \in Ids :
        \/ \E id \in Ids : Register(key, id)
        \/ Delete(key)
        \/ Get(key)

SpecStore == InitStore /\ [][NextStore]_vars

(***************************************************************************)
(* POST /build and StartBuild from the request body on (orchestrator.go    *)
(* lines 71-132), with the supervisors it starts.                          *)
(***************************************************************************)
Body(wellFormed, global, bake) ==
    [wellFormed |-> wellFormed,
     cfg |-> [nil |-> FALSE, Global |-> global, Bake |-> bake]]

NoSection == Section("", "", "nil", EmptyMap, EmptyMap)
Bake1(pf, a, np) == Section(pf, a, np, EmptyMap, EmptyMap)

\* the request bodies of the model: one that is not YAML, one without an
\* arch, one with a platform no executor serves, and manifests whose pushing
\* tasks do and do not share an arch
Bodies ==
    { Body(FALSE, NoSection, <<>>),
      Body(TRUE, NoSection, <<Bake1("ecs", "", "nil")>>),
      Body(TRUE, NoSection, <<Bake1("gcp", "amd64", "nil")>>),
      Body(TRUE, NoSection, <<Bake1("ecs", "amd64", "nil"), Bake1("k8s", "arm64", "nil")>>),
      Body(TRUE, NoSection, <<Bake1("ecs", "amd64", "nil"), Bake1("k8s", "amd64", "false")>>),
      Body(TRUE, NoSection, <<Bake1("ecs", "amd64", "true"), Bake1("ecs", "amd64", "nil")>>),
      Body(TRUE, Bake1("ecs", "arm64", "true"),
           <<Bake1("", "", "nil"), Bake1("k8s", "", "false")>>) }

ParseErr == Err("parse yaml", "", 0, 0)
InvalidConfigErr == Err("invalid yaml config", "", 0, 0)

\* StartBuild has not returned
NotReturned == ret = [id |-> "", err |-> Nil]

\* lines 78-86: StartBuild returns an error for a body that is not YAML and
\* for a manifest BuildEffectiveList rejects
StartBuildError(body) ==
    IF ~body.wellFormed THEN ParseErr
    ELSE IF BuildEffectiveList(body.cfg).err # Nil THEN InvalidConfigErr
    ELSE Nil

\* lines 71-132 and 243: StartBuild on the body of a POST /build request
StartBuild(body) ==
    /\ NotReturned
    /\ cfg' = body.cfg
    /\ IF StartBuildError(body) # Nil
       THEN /\ ret' = [id |-> "", err |-> StartBuildError(body)]
            /\ UNCHANGED <<states, allocs, lastReg, effectiveList, sup, Logs>>
       ELSE /\ effectiveList' = BuildEffectiveList(body.cfg).list
            /\ allocs' = allocs + 1
            /\ states' = StoreRegister(states, BuildId, StateRef(BuildId, allocs + 1))
            /\ lastReg' = MapSet(lastReg, BuildId, StateRef(BuildId, allocs + 1))
            /\ Logs' = PublicAppend(PublicAppend(Logs, finished, closed),
                                    finished, closed)
            /\ sup' = [i \in 1..Len(effectiveList') |-> "start"]
            /\ ret' = [id |-> BuildId, err |-> Nil]
    /\ UNCHANGED <<plan, got, execVars, mu, resp, call, ingestVars, stateVars, fz, fin, reqs, api, opsLeft,
                   readerVars, histVars, remoteStarts>>

InitSubmit ==
    /\ cfg = NilConfig
    /\ plan = NoPlan
    /\ EmptyStore
    /\ NoBuild
    /\ k8sConfigured \in BOOLEAN

NextSubmit ==
    \/ \E body \in Bodies : StartBuild(body)
    \/ Supervisor

SpecSubmit == InitSubmit /\ [][NextSubmit]_vars

(***************************************************************************)
(* POST /build/:id/result from the request on (routes.Setup, lines         *)
(* 232-321): the parsing of the request, the lookup of the build and the   *)
(* answer.                                                                 *)
(***************************************************************************)
\* the strings a request carries as `task` query parameter or as taskId of
\* its body; "" stands for a parameter or field that is absent
TaskStrings == {"", " ", "amd64", " amd64 ", "arm64"}

\* strings.TrimSpace on the strings of the model
TrimSpace(x) ==
    CASE x = " " -> ""
      [] x = " amd64 " -> "amd64"
      [] OTHER -> x

\* variant: the taskId of the body is looked at first
FinalTaskIDBodyFirst(query, bodyTask) ==
    IF TrimSpace(bodyTask) # "" THEN TrimSpace(bodyTask) ELSE TrimSpace(query)

\* lines 243-246: the task id the handler works with
FinalTaskID(query, bodyTask) ==
    IF TrimSpace(query) # "" THEN TrimSpace(query) ELSE TrimSpace(bodyTask)

\* lines 238-258 and 289, 320: the status of the answer to a request for
\* the build `id`; wellFormed says whether json.Unmarshal accepts the body
ResultStatus(m, id, wellFormed, query, bodyTask) ==
    IF ~wellFormed THEN 400
    ELSE IF FinalTaskID(query, bodyTask) = "" THEN 400
    ELSE IF ~StoreGet(m, id).ok THEN 404
    ELSE 200

\* one request handled from its arrival to its answer: the two AppendLog
\* calls (line 260 and line 285, 287 or 317) around the critical section
PostResult(id, wellFormed, query, bodyTask, d, s) ==
    LET status == ResultStatus(states, id, wellFormed, query, bodyTask)
        t == FinalTaskID(query, bodyTask)
    IN /\ CanLock
       /\ opsLeft > 0
       /\ opsLeft' = opsLeft - 1
       /\ resp' = [n |-> resp.n + 1, id |-> id, wellFormed |-> wellFormed,
                   query |-> query, bodyTask |-> bodyTask, digest |-> d,
                   success |-> s, status |-> status,
                   task |-> IF status = 200 THEN t ELSE ""]
       /\ IF status # 200
          THEN UNCHANGED <<Results, ResultsReceived, FirstError, recorded, Logs>>
          ELSE /\ IF IsDuplicate(Results, t)
                  THEN UNCHANGED <<Results, ResultsReceived, FirstError,
                                   recorded>>
                  ELSE /\ Results' = Put(Results, t, TaskResult(d, s))
                       /\ ResultsReceived' = ResultsReceived + 1
                       /\ FirstError' = AfterResult(FirstError, t, s)
                       /\ recorded' =
                              IF ~s
                              THEN FirstRecorded(recorded, TaskFailedErr(t))
                              ELSE recorded
               /\ Logs' = PublicAppend(PublicAppend(Logs, finished, closed),
                                       finished, closed)
       /\ UNCHANGED <<cfg, plan, ret, storeVars, execVars, mu, call, ingestVars,
                      effectiveList, finished,
                      closed, TaskArnByID, sup, fz, fin, reqs, api,
                      readerVars, closeCount, verdicts, verdict,
                      manifestCalls, remoteStarts>>

NextResult ==
    \E id \in Ids, wellFormed \in BOOLEAN, query \in TaskStrings,
       bodyTask \in TaskStrings, d \in Digests, s \in BOOLEAN :
        PostResult(id, wellFormed, query, bodyTask, d, s)

\* the result callback of a registered single-task build under clients that
\* send MaxOps requests one after the other
SpecResult == InitApi /\ [][NextResult]_vars

(***************************************************************************)
(* Resource normalisation (internal/config/resources.go).                  *)
(***************************************************************************)
\* the text of a resource setting: the empty string, a decimal number with
\* an optional ".5" and an optional unit suffix, or a text without digits
EmptyText == [kind |-> "empty", n |-> 0, half |-> FALSE, suf |-> ""]
Num(n, half, suf) == [kind |-> "num", n |-> n, half |-> half, suf |-> suf]
Junk == [kind |-> "junk", n |-> 0, half |-> FALSE, suf |-> ""]

\* fmt.Sprintf("%d", v)
Dec(v) == Num(v, FALSE, "")

\* the result of a parser: (value, error)
Parsed(v) == [v |-> v, err |-> ""]
ParseError(msg) == [v |-> 0, err |-> msg]

\* ParseCPU, lines 58-81: a plain number counts vCPUs, the suffix "m"
\* millicores; int64() of the product truncates
ParseCPU(s) ==
    IF s.kind = "empty" THEN Parsed(0)
    ELSE IF s.kind = "num" /\ s.suf = ""
         THEN Parsed(s.n * 1024 + (IF s.half THEN 512 ELSE 0))
    ELSE IF s.kind = "num" /\ s.suf = "m"
         THEN Parsed((s.n * 1024 + (IF s.half THEN 512 ELSE 0)) \div 1000)
    ELSE ParseError("invalid CPU format")

\* strings.ToLower on the unit suffixes of the model
ToLower(u) ==
    CASE u = "Ki" -> "ki"
      [] u = "Mi" -> "mi"
      [] u = "Gi" -> "gi"
      [] u = "X" -> "x"
      [] OTHER -> u

\* ParseMemory, lines 12-55: a plain integer counts megabytes; a number
\* with a unit is converted and truncated
ParseMemory(s) ==
    IF s.kind = "empty" THEN Parsed(0)
    ELSE IF s.kind = "num" /\ ~s.half /\ s.suf = "" THEN Parsed(s.n)
    ELSE IF s.kind # "num" \/ s.suf = "" THEN ParseError("invalid memory format")
    ELSE LET unit == ToLower(s.suf)
         IN CASE unit \in {"k", "kb", "ki", "kib"} -> Parsed(s.n \div 1024)
              [] unit \in {"m", "mb", "mi", "mib"} -> Parsed(s.n)
              [] unit \in {"g", "gb", "gi", "gib"} ->
                    Parsed(s.n * 1024 + (IF s.half THEN 512 ELSE 0))
              [] OTHER -> ParseError("unknown memory unit")

\* RoundUpECSCPU, line 101
validCPUs == <<256, 512, 1024, 2048, 4096, 8192, 16384>>

\* the arithmetic progression lo, lo + step, ..., hi as a Go slice literal
Steps(lo, hi, step) == [i \in 1..((hi - lo) \div step + 1) |-> lo + (i - 1) * step]

\* getValidECSMemories, lines 112-125: nil for a cpu that is no key
getValidECSMemories(cpu) ==
    CASE cpu = 256 -> <<512, 1024, 2048>>
      [] cpu = 512 -> <<1024, 2048, 3072, 4096>>
      [] cpu = 1024 -> Steps(2048, 8192, 1024)
      [] cpu = 2048 -> Steps(4096, 16384, 1024)
      [] cpu = 4096 -> Steps(8192, 30720, 1024)
      [] cpu = 8192 -> Steps(16384, 61440, 4096)
      [] cpu = 16384 -> Steps(32768, 122880, 8192)
      [] OTHER -> <<>>

\* variant: the loop takes the first entry that is strictly greater
RECURSIVE FirstFitStrict(_, _, _)
FirstFitStrict(valid, x, i) ==
    IF i > Len(valid) THEN valid[Len(valid)]
    ELSE IF x < valid[i] THEN valid[i]
    ELSE FirstFitStrict(valid, x, i + 1)

\* for _, valid := range ... { if x <= valid { return valid } } from index
\* i on, and the last entry when the loop ends (lines 91-98 and 103-109)
RECURSIVE FirstFit(_, _, _)
FirstFit(valid, x, i) ==
    IF i > Len(valid) THEN valid[Len(valid)]
    ELSE IF x <= valid[i] THEN valid[i]
    ELSE FirstFit(valid, x, i + 1)

\* lines 100-110
RoundUpECSCPU(cpu) == FirstFit(validCPUs, cpu, 1)

\* lines 85-98
RoundUpECSMemory(cpu, memory) ==
    LET validMemories == getValidECSMemories(cpu)
    IN IF Len(validMemories) = 0 THEN memory
       ELSE FirstFit(validMemories, memory, 1)

\* lines 128-148: (cpu, memory, error)
NormalizeECSResources(cpuStr, memoryStr) ==
    LET cpuMB == ParseCPU(cpuStr)
        memoryMB == ParseMemory(memoryStr)
        cpuRounded == RoundUpECSCPU(cpuMB.v)
        memoryRounded == RoundUpECSMemory(cpuRounded, memoryMB.v)
    IN IF cpuMB.err # ""
       THEN [cpu |-> EmptyText, mem |-> EmptyText, err |-> "parse CPU"]
       ELSE IF memoryMB.err # ""
       THEN [cpu |-> EmptyText, mem |-> EmptyText, err |-> "parse memory"]
       ELSE [cpu |-> Dec(cpuRounded), mem |-> Dec(memoryRounded), err |-> ""]

\* the set of the entries of a slice
Range(f) == {f[i] : i \in DOMAIN f}

\* the numbers the calls of the model are made with
CpuNumbers == Range(validCPUs) \cup {0, 1, 2, 250, 257, 300, 500, 999, 1000, 20000}
MemoryNumbers ==
    UNION {Range(getValidECSMemories(c)) : c \in Range(validCPUs)}
       \cup {0, 1, 4, 400, 600, 1500, 2049, 99999, 122881}

\* the texts of cpu and memory settings
CpuTexts ==
    {EmptyText, Junk} \cup
    {Num(n, h, u) : n \in CpuNumbers, h \in BOOLEAN, u \in {"", "m"}}
MemoryTexts ==
    {EmptyText, Junk, Num(100, FALSE, "X"), Num(1024, FALSE, "Ki")} \cup
    {Dec(n) : n \in MemoryNumbers} \cup
    {Num(n, h, u) : n \in {1, 2, 4, 512}, h \in BOOLEAN, u \in {"", "Mi", "Gi"}}

\* a pure function was called with `args` and returned `result`; each
\* behaviour of the specifications below makes one call
Called(fn, args, result) == [fn |-> fn, args |-> args, result |-> result]

CallRoundUpECSCPU(cpu) ==
    /\ call = NoCall
    /\ call' = Called("RoundUpECSCPU", <<cpu>>, RoundUpECSCPU(cpu))
    /\ UNCHANGED <<cfg, plan, ret, storeVars, execVars, mu, resp, ingestVars, effectiveList,
                   stateVars, Logs, sup, fz, fin, reqs, api, opsLeft,
                   readerVars, histVars, remoteStarts>>

CallRoundUpECSMemory(cpu, memory) ==
    /\ call = NoCall
    /\ call' = Called("RoundUpECSMemory", <<cpu, memory>>,
                      RoundUpECSMemory(cpu, memory))
    /\ UNCHANGED <<cfg, plan, ret, storeVars, execVars, mu, resp, ingestVars, effectiveList,
                   stateVars, Logs, sup, fz, fin, reqs, api, opsLeft,
                   readerVars, histVars, remoteStarts>>

\* a caller (EnsureTaskDefinitionForArch, line 124 of the ECS executor, or
\* any other) normalises a pair of settings
CallNormalizeECSResources(cpuStr, memoryStr) ==
    /\ call = NoCall
    /\ call' = Called("NormalizeECSResources", <<cpuStr, memoryStr>>,
                      NormalizeECSResources(cpuStr, memoryStr))
    /\ UNCHANGED <<cfg, plan, ret, storeVars, execVars, mu, resp, ingestVars, effectiveList,
                   stateVars, Logs, sup, fz, fin, reqs, api, opsLeft,
                   readerVars, histVars, remoteStarts>>

\* no build, no store entry, no call
InitPure ==
    /\ cfg = NilConfig
    /\ plan = NoPlan
    /\ EmptyStore
    /\ NoBuild
    /\ k8sConfigured = TRUE

NextResources ==
    \/ \E cpu \in CpuNumbers : CallRoundUpECSCPU(cpu)
    \/ \E cpu \in CpuNumbers, memory \in MemoryNumbers :
          CallRoundUpECSMemory(cpu, memory)
    \/ \E cpuStr \in CpuTexts, memoryStr \in MemoryTexts :
          CallNormalizeECSResources(cpuStr, memoryStr)

SpecResources == InitPure /\ [][NextResources]_vars

(***************************************************************************)
(* BuildState.MarkIngestStarted and MarkIngestDone, as POST                *)
(* /build/:id/logs/ingest and the K8s executor call them.                  *)
(***************************************************************************)
\* the task id the ingest handler uses for a request without `task`
UnknownTask == "unknown"

\* the task ids the calls carry: the ingest handler passes on whatever the
\* request has (routes, lines 191-195)
IngestIds == BuildTaskIds \cup {UnknownTask}

\* MarkIngestDone, line 191
AlreadyDone(done, t) == t \in done

\* MarkIngestStarted, lines 181-185
MarkIngestStarted(t) ==
    /\ opsLeft > 0
    /\ opsLeft' = opsLeft - 1
    /\ IngestStarted' = IngestStarted \cup {t}
    /\ call' = Called("MarkIngestStarted", <<t>>, FALSE)
    /\ UNCHANGED <<cfg, plan, ret, storeVars, execVars, mu, resp, effectiveList,
                   IngestDone, IngestDoneCt, doneTrue, stateVars, Logs, sup,
                   fz, fin, reqs, api, readerVars, histVars, remoteStarts>>

\* MarkIngestDone, lines 187-199; the call carries its return value
MarkIngestDone(t) ==
    /\ opsLeft > 0
    /\ opsLeft' = opsLeft - 1
    /\ IF AlreadyDone(IngestDone, t)
       THEN /\ call' = Called("MarkIngestDone", <<t>>, FALSE)
            /\ UNCHANGED <<IngestDone, IngestDoneCt, doneTrue>>
       ELSE /\ IngestDone' = IngestDone \cup {t}
            /\ IngestDoneCt' = IngestDoneCt + 1
            /\ call' = Called("MarkIngestDone", <<t>>,
                              IngestDoneCt + 1 = TotalTasks)
            /\ doneTrue' = IF IngestDoneCt + 1 = TotalTasks
                           THEN doneTrue + 1 ELSE doneTrue
    /\ UNCHANGED <<cfg, plan, ret, storeVars, execVars, mu, resp, effectiveList,
                   IngestStarted, stateVars, Logs, sup, fz, fin, reqs, api,
                   readerVars, histVars, remoteStarts>>

NextIngest ==
    \E t \in IngestIds : MarkIngestStarted(t) \/ MarkIngestDone(t)

\* the Build State of a registered build under MaxOps calls of the two
\* methods
SpecIngest == Init /\ [][NextIngest]_vars

(***************************************************************************)
(* Per-arch image references (orchestrator.go, lines 327-348; the ECS      *)
(* executor has the same three functions).  A string is the sequence of    *)
(* its pieces; the pieces ":" and "/" are the separators of a reference,   *)
(* the other pieces are free of them.                                      *)
(***************************************************************************)
\* lastIndexByte, lines 341-348, from index i downwards; 0 stands for -1
RECURSIVE lastIndexFrom(_, _, _)
lastIndexFrom(str, c, i) ==
    IF i < 1 THEN 0
    ELSE IF str[i] = c THEN i
    ELSE lastIndexFrom(str, c, i - 1)

lastIndexByte(str, c) == lastIndexFrom(str, c, Len(str))

\* appendArchSuffix, lines 327-332, and appendTaskSuffix, lines 334-339
appendSuffix(destination, suffix) ==
    LET idx == lastIndexByte(destination, ":")
    IN IF idx # 0
       THEN SubSeq(destination, 1, idx - 1) \o <<":">>
               \o SubSeq(destination, idx + 1, Len(destination))
               \o <<"_", suffix>>
       ELSE destination \o <<":", "latest", "_", suffix>>

appendArchSuffix(destination, arch) == appendSuffix(destination, arch)
appendTaskSuffix(destination, taskID) == appendSuffix(destination, taskID)

\* an image reference: registry host (or none), port (or none), repository
\* path and tag (or none)
Ref(host, port, path, tag) ==
    [host |-> host, port |-> port, path |-> path, tag |-> tag]

\* the reference without its tag, as a string
BaseText(ref) ==
    (IF ref.host = "" THEN <<>>
     ELSE IF ref.port = "" THEN <<ref.host, "/">>
     ELSE <<ref.host, ":", ref.port, "/">>) \o ref.path

\* the reference as the manifest writes it
RefText(ref) ==
    IF ref.tag = "" THEN BaseText(ref) ELSE BaseText(ref) \o <<":", ref.tag>>

\* the destinations of the model
Refs ==
    {Ref(h, p, path, t) :
        h \in {"", "reg", "localhost"}, p \in {"", "5000"},
        path \in {<<"app">>, <<"team", "/", "app">>},
        t \in {"", "v1", "latest"}}
      \ {Ref("", "5000", path, t) :
            path \in {<<"app">>, <<"team", "/", "app">>},
            t \in {"", "v1", "latest"}}

Archs == {"amd64", "arm64", "arm"}

\* createManifest and the executors derive the image of one task from the
\* global destination
CallAppendArchSuffix(ref, arch) ==
    /\ call = NoCall
    /\ call' = Called("appendArchSuffix", <<ref, arch>>,
                      appendArchSuffix(RefText(ref), arch))
    /\ UNCHANGED <<cfg, plan, ret, storeVars, execVars, mu, resp, ingestVars,
                   effectiveList, stateVars, Logs, sup, fz, fin, reqs, api,
                   opsLeft, readerVars, histVars, remoteStarts>>

CallAppendTaskSuffix(ref, taskID) ==
    /\ call = NoCall
    /\ call' = Called("appendTaskSuffix", <<ref, taskID>>,
                      appendTaskSuffix(RefText(ref), taskID))
    /\ UNCHANGED <<cfg, plan, ret, storeVars, execVars, mu, resp, ingestVars,
                   effectiveList, stateVars, Logs, sup, fz, fin, reqs, api,
                   opsLeft, readerVars, histVars, remoteStarts>>

NextSuffix ==
    \/ \E ref \in Refs, arch \in Archs : CallAppendArchSuffix(ref, arch)
    \/ \E ref \in Refs, taskID \in {"amd64-0", "amd64-1"} :
          CallAppendTaskSuffix(ref, taskID)

SpecSuffix == InitPure /\ [][NextSuffix]_vars

(***************************************************************************)
(* The destination of one task: what the executors hand its worker as      *)
(* KANIKO_DESTINATION (ECSExecutor.RunTaskForArch, lines 263-281, and      *)
(* K8sExecutor.RunTask, lines 122-139, which are the same statement) and   *)
(* what createManifest puts into the manifest list (lines 302-311).  The   *)
(* empty string is the empty sequence.                                     *)
(***************************************************************************)
kanikoDestination(isSingleArch, hasDuplicateArch, efDestination, globalDestination, arch, taskID) ==
    IF isSingleArch
    THEN IF efDestination # <<>> THEN efDestination ELSE globalDestination
    ELSE IF efDestination # <<>> /\ efDestination # globalDestination
         THEN efDestination
         ELSE IF hasDuplicateArch
              THEN appendTaskSuffix(globalDestination, taskID)
              ELSE appendArchSuffix(globalDestination, arch)

pushedImage(hasDuplicateArch, efDestination, destination, arch, taskID) ==
    IF efDestination # <<>> THEN efDestination
    ELSE IF hasDuplicateArch
         THEN appendTaskSuffix(destination, taskID)
         ELSE appendArchSuffix(destination, arch)

\* the global destinations and the destinations of a task: none, the global
\* one, another one
GlobalDestinations ==
    {RefText(Ref("reg", "", <<"app">>, "v1")),
     RefText(Ref("", "", <<"team", "/", "app">>, "")),
     RefText(Ref("reg", "5000", <<"app">>, "latest"))}

TaskDestinations(globalDestination) ==
    {<<>>, globalDestination, RefText(Ref("reg", "", <<"other">>, "v2"))}

\* the id of the task at index idx, orchestrator.go lines 127-132
taskIDOf(hasDuplicateArch, arch, idx) ==
    IF hasDuplicateArch THEN arch \o "-" \o ToString(idx) ELSE arch

\* one task of a build is dispatched by an executor and, when its result is
\* in, added to the manifest list
CallDestinations(executor, isSingleArch, hasDuplicateArch, efDestination, globalDestination, arch, idx) ==
    /\ call = NoCall
    /\ LET taskID == taskIDOf(hasDuplicateArch, arch, idx)
       IN call' = Called("destinations",
                         [executor |-> executor,
                          isSingleArch |-> isSingleArch,
                          hasDuplicateArch |-> hasDuplicateArch,
                          efDestination |-> efDestination,
                          globalDestination |-> globalDestination,
                          arch |-> arch, taskID |-> taskID],
                         [worker |-> kanikoDestination(
                                        isSingleArch, hasDuplicateArch,
                                        efDestination, globalDestination,
                                        arch, taskID),
                          manifest |-> pushedImage(
                                        hasDuplicateArch, efDestination,
                                        globalDestination, arch, taskID)])
    /\ UNCHANGED <<cfg, plan, ret, storeVars, execVars, mu, resp, ingestVars,
                   effectiveList, stateVars, Logs, sup, fz, fin, reqs, api,
                   opsLeft, readerVars, histVars, remoteStarts>>

NextDestination ==
    \E executor \in {"ecs", "k8s"}, isSingleArch \in BOOLEAN,
       hasDuplicateArch \in BOOLEAN, globalDestination \in GlobalDestinations,
       arch \in {"amd64", "arm64"}, idx \in {0, 1} :
        \E efDestination \in TaskDestinations(globalDestination) :
            CallDestinations(executor, isSingleArch, hasDuplicateArch,
                             efDestination, globalDestination, arch, idx)

SpecDestination == InitPure /\ [][NextDestination]_vars

(***************************************************************************)
(* K8sExecutor.RunTask from the creation of the job on (k8s.go, lines      *)
(* 282-315) with the goroutine it starts: waitJobCompletion (317-379),     *)
(* checkJobStatus (413-439) and checkPodExitCode (441-575).  The task is   *)
(* the one of the config at K8sIdx; the other supervisor of the build runs *)
(* beside it.  What the cluster answers is chosen by the environment.      *)
(* RunTask waits in its select from the moment the goroutine starts, and   *)
(* the goroutine waits in the select of its loop while it is at "watch":   *)
(* a waiting select takes the case that becomes ready first.               *)
(***************************************************************************)
\* number of 100 ms polls after which a wait of checkPodExitCode gives up
\* (the program polls for 30 s and for 90 s)
MaxPolls == 1

\* the two configs of the build the executors are followed in
ExecList == <<Task("amd64", FALSE, "ecs"), Task("arm64", FALSE, "k8s")>>
EcsIdx == CHOOSE i \in DOMAIN ExecList : ExecList[i].platform = "ecs"
K8sIdx == CHOOSE i \in DOMAIN ExecList : ExecList[i].platform = "k8s"

\* the errors of the K8s executor
K8sErr(kind) == Err(kind, "arm64", 0, 0)
CreateJobErr == K8sErr("[k8s] create job")
WatchErr == K8sErr("watch error")
WaitCancelledErr == K8sErr("k8s job wait cancelled")
CtxErr == K8sErr("context deadline exceeded")
JobTimeoutErr == K8sErr("job timeout")
JobFailedErr == K8sErr("job failed")
JobUnclearErr == K8sErr("job status unclear")
GetJobErr == K8sErr("get job")
ListPodsErr == K8sErr("list pods")
NoPodsErr == K8sErr("no pods found for job")
NeverStartedErr == K8sErr("pod never started")
NoAgentErr == K8sErr("agent container not found in pod")
AgentExitErr == K8sErr("agent exit")

\* RunTask has not returned
NotYet == Err("not returned", "", 0, 0)

\* lines 296-303: the job is created, the goroutine is about to call Watch
JobCreated ==
    [pc |-> "start watch", main |-> "select", ret |-> NotYet,
     ctx |-> "live", watchCtx |-> "live", via |-> "none", jobErr |-> Nil,
     inspectCtx |-> "none", seen |-> {}, set |-> <<>>, setBefore |-> <<>>,
     exit |-> "none", resultWaited |-> 0, ingestWaited |-> 0, warned |-> {},
     marked |-> FALSE]

\* the executor goroutine calls st.SetError(e): FirstError, the history of
\* the state and the errors the executor has handed over
K8sSetError(e) ==
    /\ CanLock
    /\ FirstError' = Sticky(FirstError, e)
    /\ recorded' = FirstRecorded(recorded, e)

\* the frame after st.SetError(e) of the goroutine
Handed(run, e) == [run EXCEPT !.set = Append(run.set, e)]

\* the goroutine returns and `done` is closed (line 301): a RunTask that
\* waits in its select takes the case `done`
GoroutineEnds(run) ==
    [run EXCEPT !.pc = "done",
                !.main = IF run.main = "select" THEN "case done" ELSE run.main]

\* what the K8s steps leave alone
K8sRest ==
    <<cfg, plan, ret, storeVars, resp, call, k8sConfigured, ecsRun, taskDef,
      effectiveList, mu, finished, closed, fz, fin, reqs, api, opsLeft,
      readerVars, closeCount, verdicts, verdict, manifestCalls>>

\* lines 282-294: Jobs.Create; on an error RunTask returns it
K8sCreateJob(ok) ==
    /\ k8sRun = NoRun
    /\ sup[K8sIdx] = "dispatch"
    /\ Routed(effectiveList[K8sIdx].platform, k8sConfigured) = "k8s"
    /\ remoteStarts' = remoteStarts \cup {<<K8sIdx, "k8s">>}
    /\ IF ok
       THEN /\ k8sRun' = JobCreated
            /\ TaskArnByID' = TaskArnByID \cup {TaskIdAt(K8sIdx)}
            /\ Logs' = PublicAppend(Logs, finished, closed)
            /\ UNCHANGED sup
       ELSE /\ k8sRun' = [pc |-> "not created"]
            /\ sup' = [sup EXCEPT ![K8sIdx] = "failed"]
            /\ UNCHANGED <<TaskArnByID, Logs>>
    /\ UNCHANGED <<K8sRest, ingestVars, Results, ResultsReceived, FirstError,
                   recorded>>

\* lines 323-330: Jobs.Watch; on an error the goroutine logs it, calls
\* SetError and returns
K8sWatch(ok) ==
    /\ k8sRun.pc = "start watch"
    /\ IF ok /\ k8sRun.watchCtx = "live"
       THEN /\ k8sRun' = [k8sRun EXCEPT !.pc = "watch"]
            /\ UNCHANGED <<FirstError, recorded, Logs>>
       ELSE /\ K8sSetError(WatchErr)
            /\ Logs' = PublicAppend(Logs, finished, closed)
            /\ k8sRun' = GoroutineEnds(
                            Handed([k8sRun EXCEPT !.via = "watch error"], WatchErr))
    /\ UNCHANGED <<K8sRest, ingestVars, Results, ResultsReceived, TaskArnByID,
                   sup, remoteStarts>>

\* the deadline of the supervisor passes (line 144 of the orchestrator):
\* ctx and the watch context derived from it are done; a waiting select
\* takes its case ctx.Done()
K8sDeadline ==
    /\ k8sRun.pc \notin {"idle", "not created"}
    /\ k8sRun.ctx = "live"
    /\ k8sRun.main \in {"select", "case done"}
    /\ k8sRun' = [k8sRun EXCEPT
                     !.ctx = "done",
                     !.watchCtx = "done",
                     !.main = IF k8sRun.main = "select" THEN "case ctx"
                              ELSE k8sRun.main,
                     !.pc = IF k8sRun.pc = "watch" THEN "case ctx"
                            ELSE k8sRun.pc]
    /\ UNCHANGED <<K8sRest, ingestVars, stateVars, Logs, sup, recorded,
                   remoteStarts>>

\* the 30 minutes of the watch context pass (line 297) before the deadline
\* of the supervisor
K8sWatchTimeout ==
    /\ k8sRun.pc \notin {"idle", "not created", "done"}
    /\ k8sRun.watchCtx = "live"
    /\ k8sRun' = [k8sRun EXCEPT
                     !.watchCtx = "done",
                     !.pc = IF k8sRun.pc = "watch" THEN "case ctx"
                            ELSE k8sRun.pc]
    /\ UNCHANGED <<K8sRest, ingestVars, stateVars, Logs, sup, recorded,
                   remoteStarts>>

\* line 340: the error the goroutine hands to SetError when its context is
\* done; variant: the branch records nothing
WatchCtxDoneSetsNothing(ctxErr) == Nil

WatchCtxDoneSets(ctxErr) == JobTimeoutErr

\* lines 338-342: case <-ctx.Done(): log, SetError, and exit-code inspection
\* under context.Background() with ctx.Err() as the job error
K8sCtxDone ==
    /\ k8sRun.pc = "case ctx"
    /\ K8sSetError(WatchCtxDoneSets(CtxErr))
    /\ Logs' = PublicAppend(Logs, finished, closed)
    /\ k8sRun' = [Handed(k8sRun, WatchCtxDoneSets(CtxErr)) EXCEPT
                     !.pc = "list pods", !.via = "ctx done",
                     !.jobErr = CtxErr, !.inspectCtx = "background"]
    /\ UNCHANGED <<K8sRest, ingestVars, Results, ResultsReceived, TaskArnByID,
                   sup, remoteStarts>>

\* lines 369-376: the ticker; Jobs.Get and a debug line, or `continue`
K8sTick(ok) ==
    /\ k8sRun.pc = "watch"
    /\ Logs' = IF ok THEN PublicAppend(Logs, finished, closed) ELSE Logs
    /\ UNCHANGED <<K8sRest, ingestVars, stateVars, sup, recorded, k8sRun,
                   remoteStarts>>

\* lines 344-367: an event of the watch: JobComplete, JobFailed (exit-code
\* inspection under context.Background()), or the channel is closed
\* (checkJobStatus under the context of the watch); other events leave the
\* loop where it is
K8sEvent(e) ==
    /\ k8sRun.pc = "watch"
    /\ k8sRun' =
          CASE e = "complete" ->
                   [k8sRun EXCEPT !.pc = "list pods", !.via = "complete",
                                  !.jobErr = Nil, !.inspectCtx = "background"]
            [] e = "failed" ->
                   [k8sRun EXCEPT !.pc = "list pods", !.via = "failed",
                                  !.jobErr = JobFailedErr,
                                  !.inspectCtx = "background"]
            [] e = "closed" ->
                   [k8sRun EXCEPT !.pc = "get job", !.via = "closed"]
    /\ UNCHANGED <<K8sRest, ingestVars, stateVars, Logs, sup, recorded,
                   remoteStarts>>

\* checkJobStatus, lines 419-438: Jobs.Get under the context of the watch,
\* which fails when that context is done; the job error the conditions give
K8sGetJob(answer) ==
    /\ k8sRun.pc = "get job"
    /\ k8sRun.watchCtx = "done" => answer = "error"
    /\ IF answer = "error"
       THEN /\ K8sSetError(GetJobErr)
            /\ k8sRun' = [Handed(k8sRun, GetJobErr) EXCEPT
                             !.pc = "list pods", !.jobErr = GetJobErr,
                             !.inspectCtx = "watch",
                             !.seen = k8sRun.seen \cup {"describe error"}]
       ELSE /\ k8sRun' =
                  [k8sRun EXCEPT
                      !.pc = "list pods", !.inspectCtx = "watch",
                      !.jobErr = CASE answer = "complete" -> Nil
                                   [] answer = "failed" -> JobFailedErr
                                   [] answer = "none" -> JobUnclearErr,
                      !.seen = IF answer = "none"
                               THEN k8sRun.seen \cup {"no terminal condition"}
                               ELSE k8sRun.seen]
            /\ UNCHANGED <<FirstError, recorded>>
    /\ UNCHANGED <<K8sRest, ingestVars, Results, ResultsReceived, TaskArnByID,
                   Logs, sup, remoteStarts>>

\* what Pods.List and the status of the pod show
PodAnswers ==
    {"error", "no pods", "pending", "no agent", "running", "exit 0", "exit 1"}

\* checkPodExitCode, lines 448-490 and 564-575: the pods of the job are
\* listed under the context handed in, which fails when that context is
\* done; the anomalies end the goroutine, a terminated agent container is
\* followed by the two waits
K8sListPods(answer) ==
    /\ k8sRun.pc = "list pods"
    /\ (k8sRun.inspectCtx = "watch" /\ k8sRun.watchCtx = "done") =>
          answer = "error"
    /\ LET e == CASE answer = "error" -> ListPodsErr
                  [] answer = "no pods" -> NoPodsErr
                  [] answer = "pending" -> NeverStartedErr
                  [] answer = "no agent" -> NoAgentErr
                  [] answer = "running" -> k8sRun.jobErr
                  [] answer = "exit 1" -> AgentExitErr
                  [] answer = "exit 0" -> Nil
           saw == CASE answer = "no pods" -> {"pods disappeared"}
                    [] answer = "pending" -> {"pod never started"}
                    [] OTHER -> {}
           run == [k8sRun EXCEPT !.seen = k8sRun.seen \cup saw]
           after == IF e # Nil THEN Handed(run, e) ELSE run
       IN /\ IF e # Nil
             THEN /\ K8sSetError(e)
                  /\ Logs' = PublicAppend(Logs, finished, closed)
             ELSE /\ UNCHANGED <<FirstError, recorded>>
                  /\ Logs' = IF answer = "exit 0"
                             THEN PublicAppend(Logs, finished, closed)
                             ELSE Logs
          /\ k8sRun' =
                IF answer \in {"exit 0", "exit 1"}
                THEN [after EXCEPT !.pc = "result wait",
                                   !.exit = IF answer = "exit 0" THEN "zero" ELSE "non-zero",
                                   !.setBefore = after.set]
                ELSE GoroutineEnds(after)
    /\ UNCHANGED <<K8sRest, ingestVars, Results, ResultsReceived, TaskArnByID,
                   sup, remoteStarts>>

\* the error a wait of checkPodExitCode hands to SetError when it gives up:
\* none (lines 520-523 and 549-552 log a warning); variant: it fails the
\* build
WaitExpiredFails(what) == K8sErr(what)

WaitExpired(what) == Nil

\* the frame and the state after a wait has given up
K8sGiveUp(what, next) ==
    /\ Logs' = PublicAppend(Logs, finished, closed)
    /\ IF WaitExpired(what) # Nil
       THEN /\ K8sSetError(WaitExpired(what))
            /\ k8sRun' = [Handed(k8sRun, WaitExpired(what)) EXCEPT
                             !.pc = next, !.warned = k8sRun.warned \cup {what}]
       ELSE /\ k8sRun' = [k8sRun EXCEPT !.pc = next,
                                        !.warned = k8sRun.warned \cup {what}]
            /\ UNCHANGED <<FirstError, recorded>>

\* lines 496-523: one round of the wait for the result callback of the task
K8sResultPoll ==
    /\ k8sRun.pc = "result wait"
    /\ CanRLock
    /\ IF TaskIdAt(K8sIdx) \in DOMAIN Results
       THEN /\ k8sRun' = [k8sRun EXCEPT !.pc = "ingest wait"]
            /\ Logs' = PublicAppend(Logs, finished, closed)
            /\ UNCHANGED <<FirstError, recorded>>
       ELSE IF k8sRun.resultWaited < MaxPolls
       THEN /\ k8sRun' = [k8sRun EXCEPT !.resultWaited = k8sRun.resultWaited + 1]
            /\ UNCHANGED <<FirstError, recorded, Logs>>
       ELSE K8sGiveUp("result not received", "ingest wait")
    /\ UNCHANGED <<K8sRest, ingestVars, Results, ResultsReceived, TaskArnByID,
                   sup, remoteStarts>>

\* lines 525-552: one round of the wait for the end of the task's ingest
K8sIngestPoll ==
    /\ k8sRun.pc = "ingest wait"
    /\ CanRLock
    /\ IF TaskIdAt(K8sIdx) \in IngestDone
       THEN /\ k8sRun' = [k8sRun EXCEPT !.pc = "mark"]
            /\ Logs' = PublicAppend(Logs, finished, closed)
            /\ UNCHANGED <<FirstError, recorded>>
       ELSE IF k8sRun.ingestWaited < MaxPolls
       THEN /\ k8sRun' = [k8sRun EXCEPT !.ingestWaited = k8sRun.ingestWaited + 1]
            /\ UNCHANGED <<FirstError, recorded, Logs>>
       ELSE K8sGiveUp("ingest not confirmed", "mark")
    /\ UNCHANGED <<K8sRest, ingestVars, Results, ResultsReceived, TaskArnByID,
                   sup, remoteStarts>>

\* lines 554-556: st.MarkIngestDone(taskID) and the return of the goroutine
K8sMarkIngestDone ==
    /\ k8sRun.pc = "mark"
    /\ CanLock
    /\ LET t == TaskIdAt(K8sIdx)
       IN IF AlreadyDone(IngestDone, t)
          THEN UNCHANGED <<IngestDone, IngestDoneCt, doneTrue>>
          ELSE /\ IngestDone' = IngestDone \cup {t}
               /\ IngestDoneCt' = IngestDoneCt + 1
               /\ doneTrue' = IF IngestDoneCt + 1 = TotalTasks
                              THEN doneTrue + 1 ELSE doneTrue
    /\ k8sRun' = GoroutineEnds([k8sRun EXCEPT !.marked = TRUE])
    /\ UNCHANGED <<K8sRest, IngestStarted, stateVars, Logs, sup, recorded,
                   remoteStarts>>

\* lines 305-314: RunTask returns from its select: after `done` with the
\* sticky error of the state, if there is one, or nil; after ctx.Done() with
\* the error of line 313
K8sReturn ==
    /\ k8sRun.pc \notin {"idle", "not created"}
    /\ k8sRun.main \in {"case done", "case ctx"}
    /\ sup[K8sIdx] = "dispatch"
    /\ k8sRun.main = "case done" => CanRLock
    /\ LET e == IF k8sRun.main = "case ctx" THEN WaitCancelledErr
                ELSE FirstError
       IN /\ k8sRun' = [k8sRun EXCEPT !.main = "returned", !.ret = e,
                                      !.watchCtx = "done"]
          /\ sup' = [sup EXCEPT ![K8sIdx] =
                        IF e = Nil THEN "ok"
                        ELSE IF k8sRun.main = "case done" /\ k8sRun.set = <<>>
                        THEN "clean failed"
                        ELSE "failed"]
    /\ UNCHANGED <<K8sRest, ingestVars, stateVars, Logs, recorded,
                   remoteStarts>>

\* the worker's result callback is stored (critical section of the result
\* handler, routes lines 263-315)
K8sCallback(s) ==
    /\ CanLock
    /\ LET t == TaskIdAt(K8sIdx)
       IN /\ ~IsDuplicate(Results, t)
          /\ Results' = Put(Results, t, TaskResult("sha256:A", s))
          /\ ResultsReceived' = ResultsReceived + 1
          /\ FirstError' = AfterResult(FirstError, t, s)
          /\ recorded' = IF ~s THEN FirstRecorded(recorded, TaskFailedErr(t))
                         ELSE recorded
    /\ UNCHANGED <<K8sRest, ingestVars, k8sRun, finished, closed, TaskArnByID,
                   Logs, sup, remoteStarts>>

\* the worker's ingest request ends (routes lines 208 and 224)
K8sIngestEnds ==
    /\ CanLock
    /\ LET t == TaskIdAt(K8sIdx)
       IN /\ ~AlreadyDone(IngestDone, t)
          /\ IngestDone' = IngestDone \cup {t}
          /\ IngestDoneCt' = IngestDoneCt + 1
          /\ doneTrue' = IF IngestDoneCt + 1 = TotalTasks
                         THEN doneTrue + 1 ELSE doneTrue
    /\ UNCHANGED <<K8sRest, IngestStarted, k8sRun, stateVars, Logs, sup,
                   recorded, remoteStarts>>

K8sExecutor ==
    \/ \E ok \in BOOLEAN : K8sCreateJob(ok) \/ K8sWatch(ok) \/ K8sTick(ok)
    \/ K8sDeadline
    \/ K8sWatchTimeout
    \/ K8sCtxDone
    \/ \E e \in {"complete", "failed", "closed"} : K8sEvent(e)
    \/ \E a \in {"error", "complete", "failed", "none"} : K8sGetJob(a)
    \/ \E a \in PodAnswers : K8sListPods(a)
    \/ K8sResultPoll
    \/ K8sIngestPoll
    \/ K8sMarkIngestDone
    \/ K8sReturn

\* the supervisor of the K8s task around its executor, and the other
\* supervisor of the build
K8sSupervisors ==
    \/ SupLog(K8sIdx)
    \/ SupSetError(K8sIdx)
    \/ SupervisorAt(EcsIdx)

InitExec ==
    /\ Init
    /\ effectiveList = ExecList

NextK8s ==
    \/ K8sExecutor
    \/ K8sSupervisors
    \/ \E s \in BOOLEAN : K8sCallback(s)
    \/ K8sIngestEnds

SpecK8s == InitExec /\ [][NextK8s]_vars

(***************************************************************************)
(* ECSExecutor.RunTaskForArch from the RunTask call of the ECS API on      *)
(* (part_004, lines 386-428) with waitTaskStopped (458-494) and            *)
(* checkTaskExitCode (496-549).  The task is the one of the config at      *)
(* EcsIdx; what the ECS API answers is chosen by the environment.          *)
(***************************************************************************)
\* rounds of waitTaskStopped that are followed
MaxDescribes == 2

\* the errors of the ECS executor
EcsErr(kind) == Err(kind, "amd64", 0, 0)
RunTaskApiErr == EcsErr("RunTask")
EcsTimeoutErr == EcsErr("timeout waiting for ECS task")
DescribeTasksErr == EcsErr("DescribeTasks")
NoTaskInfoErr == EcsErr("no task info")
NoAgentContainerErr == EcsErr("agent container not found")
EcsAgentExitErr == EcsErr("agent exit")

\* an *int32 is the set of the values it points to: empty when nil
NilInt32 == {}
\* aws.ToInt32: the value pointed to, 0 for nil
ToInt32(p) == IF p = NilInt32 THEN 0 ELSE CHOOSE v \in p : TRUE

\* lines 413-424: the task is started, waitTaskStopped is in its select
TaskStarted ==
    [pc |-> "poll", ret |-> NotYet, ctx |-> "live", described |-> 0,
     errors |-> 0, status |-> "none", probe |-> "none", exitCode |-> NilInt32,
     set |-> <<>>]

\* what the ECS steps leave alone
EcsRest ==
    <<cfg, plan, ret, storeVars, resp, call, ingestVars, k8sConfigured, k8sRun,
      taskDef, effectiveList, mu, finished, closed, fz, fin, reqs, api,
      opsLeft, readerVars, closeCount, verdicts, verdict, manifestCalls>>

\* lines 386-420: the RunTask call; an error or an empty task list ends the
\* executor with an error
EcsRunTask(started) ==
    /\ ecsRun = NoRun
    /\ sup[EcsIdx] = "dispatch"
    /\ Routed(effectiveList[EcsIdx].platform, k8sConfigured) = "ecs"
    /\ remoteStarts' = remoteStarts \cup {<<EcsIdx, "ecs">>}
    /\ IF started
       THEN /\ ecsRun' = TaskStarted
            /\ TaskArnByID' = TaskArnByID \cup {TaskIdAt(EcsIdx)}
            /\ Logs' = PublicAppend(Logs, finished, closed)
            /\ UNCHANGED sup
       ELSE /\ ecsRun' = [pc |-> "not started"]
            /\ sup' = [sup EXCEPT ![EcsIdx] = "failed"]
            /\ UNCHANGED <<TaskArnByID, Logs>>
    /\ UNCHANGED <<EcsRest, Results, ResultsReceived, FirstError, recorded>>

\* the deadline of the supervisor passes: waitTaskStopped, which waits in
\* its select, takes the case ctx.Done()
EcsDeadline ==
    /\ ecsRun.pc = "poll"
    /\ ecsRun.ctx = "live"
    /\ ecsRun' = [ecsRun EXCEPT !.ctx = "done", !.pc = "case ctx"]
    /\ UNCHANGED <<EcsRest, stateVars, Logs, sup, recorded, remoteStarts>>

\* the executor returns e to the supervisor
EcsReturns(run, e) == [run EXCEPT !.pc = "returned", !.ret = e]

\* lines 466-467 and 424-426: the timeout error is returned
EcsCancelled ==
    /\ ecsRun.pc = "case ctx"
    /\ ecsRun' = EcsReturns(ecsRun, EcsTimeoutErr)
    /\ sup' = [sup EXCEPT ![EcsIdx] = "failed"]
    /\ UNCHANGED <<EcsRest, stateVars, Logs, recorded, remoteStarts>>

\* what a DescribeTasks of the loop shows
DescribeAnswers == {"error", "no tasks", "no status", "RUNNING", "STOPPED"}

\* variant: a loop that a describe error ends
AfterDescribeGivesUp(answer) ==
    IF answer \in {"STOPPED", "error"} THEN "probe" ELSE "poll"

\* lines 474-491: where the loop is after an answer: it goes on after an
\* error, an empty list and a status other than STOPPED
AfterDescribe(answer) == IF answer = "STOPPED" THEN "probe" ELSE "poll"

\* lines 469-491: one round of waitTaskStopped, 3 s after the last one
EcsDescribe(answer) ==
    /\ ecsRun.pc = "poll"
    /\ ecsRun.described < MaxDescribes
    /\ ecsRun' = [ecsRun EXCEPT
                     !.pc = AfterDescribe(answer),
                     !.described = ecsRun.described + 1,
                     !.errors = IF answer = "error" THEN ecsRun.errors + 1
                                ELSE ecsRun.errors,
                     !.status = IF answer \in {"RUNNING", "STOPPED"}
                                THEN answer ELSE ecsRun.status]
    /\ Logs' = IF answer \in {"error", "RUNNING", "STOPPED"}
               THEN PublicAppend(Logs, finished, closed) ELSE Logs
    /\ UNCHANGED <<EcsRest, stateVars, sup, recorded, remoteStarts>>

\* what the DescribeTasks of checkTaskExitCode shows: an error, no task, a
\* task without an agent container, or the exit code of the agent container
ProbeAnswers ==
    {[kind |-> k, exitCode |-> NilInt32] : k \in {"error", "no tasks", "no agent"}}
        \cup {[kind |-> "agent", exitCode |-> p] : p \in {NilInt32, {0}, {1}}}

\* variant: an exit code that is never an error
ExitErrorIgnored(exit) == Nil

\* lines 533-542: taskErr for an exit code
ExitError(exit) == IF exit # 0 THEN EcsAgentExitErr ELSE Nil

\* lines 500-548: checkTaskExitCode, with a context of its own, and the
\* return of RunTaskForArch (line 428)
EcsCheckExitCode(answer) ==
    /\ ecsRun.pc = "probe"
    /\ CanRLock
    /\ LET e == CASE answer.kind = "error" -> DescribeTasksErr
                  [] answer.kind = "no tasks" -> NoTaskInfoErr
                  [] answer.kind = "no agent" -> NoAgentContainerErr
                  [] answer.kind = "agent" -> ExitError(ToInt32(answer.exitCode))
       IN /\ IF e # Nil
             THEN /\ CanLock
                  /\ FirstError' = Sticky(FirstError, e)
                  /\ recorded' = FirstRecorded(recorded, e)
             ELSE UNCHANGED <<FirstError, recorded>>
          /\ ecsRun' = EcsReturns(
                          [ecsRun EXCEPT
                              !.probe = answer.kind,
                              !.exitCode = answer.exitCode,
                              !.set = IF e # Nil THEN Append(ecsRun.set, e)
                                      ELSE ecsRun.set], e)
          /\ sup' = [sup EXCEPT ![EcsIdx] = IF e = Nil THEN "ok" ELSE "failed"]
          /\ Logs' = IF answer.kind \in {"error", "agent"}
                     THEN PublicAppend(Logs, finished, closed) ELSE Logs
    /\ UNCHANGED <<EcsRest, Results, ResultsReceived, finished, closed,
                   TaskArnByID, remoteStarts>>

\* the worker's result callback for the ECS task is stored (critical section
\* of the result handler, routes lines 263-315)
EcsCallback(s) ==
    /\ CanLock
    /\ LET t == TaskIdAt(EcsIdx)
       IN /\ ~IsDuplicate(Results, t)
          /\ Results' = Put(Results, t, TaskResult("sha256:A", s))
          /\ ResultsReceived' = ResultsReceived + 1
          /\ FirstError' = AfterResult(FirstError, t, s)
          /\ recorded' = IF ~s THEN FirstRecorded(recorded, TaskFailedErr(t))
                         ELSE recorded
    /\ UNCHANGED <<EcsRest, ecsRun, finished, closed, TaskArnByID, Logs, sup,
                   remoteStarts>>

EcsExecutor ==
    \/ \E started \in BOOLEAN : EcsRunTask(started)
    \/ EcsDeadline
    \/ EcsCancelled
    \/ \E a \in DescribeAnswers : EcsDescribe(a)
    \/ \E a \in ProbeAnswers : EcsCheckExitCode(a)

\* the supervisor of the ECS task around its executor, and the other
\* supervisor of the build
EcsSupervisors ==
    \/ SupLog(EcsIdx)
    \/ SupSetError(EcsIdx)
    \/ SupervisorAt(K8sIdx)

NextEcs ==
    \/ EcsExecutor
    \/ EcsSupervisors
    \/ \E s \in BOOLEAN : EcsCallback(s)

SpecEcs == InitExec /\ [][NextEcs]_vars

(***************************************************************************)
(* ECSExecutor.EnsureTaskDefinitionForArch (part_004, lines 115-216): the  *)
(* task-definition cache of the executor under concurrent callers.  What   *)
(* ECS answers is chosen by the environment, except that a describe finds  *)
(* exactly the families that are registered.                               *)
(***************************************************************************)
\* calls each caller makes
MaxCalls == 2

\* the archs and the (cpu, memory) settings of the calls: no settings, for
\* which the defaults are taken, and a cpu text that does not parse
TdArchs == {"amd64", "arm"}
TdResources == {<<EmptyText, EmptyText>>, <<Junk, EmptyText>>}

\* the errors of EnsureTaskDefinitionForArch
TdErr(kind) == Err(kind, "", 0, 0)
NormalizeErr == TdErr("normalize resources")
InvalidResourcesErr == TdErr("invalid ECS CPU/Memory combination")
UnknownArchErr == TdErr("unknown arch")
RegisterErr == TdErr("register taskdef")

\* validateECSResources, lines 88-111: nil for a cpu of the table with a
\* memory of its row
validateECSResources(cpu, memory) ==
    IF cpu.kind = "num" /\ memory.kind = "num"
          /\ memory.n \in Range(getValidECSMemories(cpu.n))
    THEN Nil ELSE InvalidResourcesErr

\* lines 116-132: the defaults, the normalisation, the validation and the
\* family: (family, error)
FamilyFor(arch, cpu, memory) ==
    LET c == IF cpu = EmptyText THEN Dec(256) ELSE cpu
        m == IF memory = EmptyText THEN Dec(512) ELSE memory
        norm == NormalizeECSResources(c, m)
    IN IF norm.err # "" THEN [family |-> <<>>, err |-> NormalizeErr]
       ELSE IF validateECSResources(norm.cpu, norm.mem) # Nil
       THEN [family |-> <<>>, err |-> validateECSResources(norm.cpu, norm.mem)]
       ELSE [family |-> <<arch, norm.cpu.n, norm.mem.n>>, err |-> Nil]

\* lines 149-157: the arch switch
cpuArch(arch) ==
    CASE arch = "amd64" -> "X86_64"
      [] arch = "arm64" -> "ARM64"
      [] OTHER -> "unknown"

\* a triple EnsureTaskDefinitionForArch has no task definition for
Unsupported(arch, cpu, memory) ==
    cpuArch(arch) = "unknown" \/ FamilyFor(arch, cpu, memory).err # Nil

\* what the steps of the task-definition cache leave alone
TdRest ==
    <<cfg, plan, ret, storeVars, resp, call, ingestVars, k8sConfigured, k8sRun,
      ecsRun, effectiveList, mu, stateVars, Logs, sup, fz, fin, reqs, api,
      opsLeft, readerVars, histVars, remoteStarts>>

\* a call is in progress
InCall(c) == taskDef.frames[c].pc \notin {"idle", "returned"}

\* the call of a caller: caller and number
CallOf(c) == <<c, taskDef.calls[c]>>

\* the frame of c returns (family, e); the deferred Unlock of line 135 runs
\* if the lock was taken
TdReturn(td, c, e) ==
    [td EXCEPT !.frames[c].pc = "returned",
               !.frames[c].err = e,
               !.holder = IF td.holder = c THEN "none" ELSE td.holder]

\* variant: a family is marked whatever the call returned
CacheAlways(cache, family, e) == cache \cup {family}

\* lines 145, 202 and 213: taskDefCache[family] = true after an API call
\* that returned no error
CacheAfter(cache, family, e) == IF e = Nil THEN cache \cup {family} ELSE cache

\* the frame of c has made an API call for its family which returned e
TdAnswered(td, c, e) ==
    LET f == td.frames[c].family
    IN [td EXCEPT !.cache = CacheAfter(td.cache, f, e),
                  !.confirmed = IF e = Nil THEN td.confirmed \cup {f}
                                ELSE td.confirmed,
                  !.frames[c].api = td.frames[c].api + 1,
                  !.frames[c].added =
                      td.frames[c].added \/ CacheAfter(td.cache, f, e) # td.cache]

\* lines 115-132: a caller enters with its settings; a normalisation or a
\* validation error is returned before the lock
TdEnter(c, arch, cpu, memory) ==
    /\ ~InCall(c)
    /\ taskDef.calls[c] < MaxCalls
    /\ LET ff == FamilyFor(arch, cpu, memory)
           k == taskDef.calls[c] + 1
           others == {o \in Callers \ {c} : InCall(o)}
           frame == [pc |-> IF ff.err = Nil THEN "lock" ELSE "returned",
                     arch |-> arch,
                     unsupported |-> Unsupported(arch, cpu, memory),
                     family |-> ff.family, err |-> ff.err, api |-> 0,
                     hit |-> FALSE, added |-> FALSE]
       IN taskDef' =
             [taskDef EXCEPT
                 !.calls[c] = k,
                 !.frames[c] = frame,
                 !.overlap = taskDef.overlap \cup
                                {{<<c, k>>, CallOf(o)} : o \in others}]
    /\ UNCHANGED TdRest

\* lines 134-139: taskDefMu.Lock() returns; a cached family is returned
TdLock(c) ==
    /\ taskDef.frames[c].pc = "lock"
    /\ taskDef.holder = "none"
    /\ LET held == [taskDef EXCEPT !.holder = c]
       IN taskDef' =
             IF taskDef.frames[c].family \in taskDef.cache
             THEN TdReturn([held EXCEPT !.frames[c].hit = TRUE], c, Nil)
             ELSE [held EXCEPT !.frames[c].pc = "describe"]
    /\ UNCHANGED TdRest

\* lines 141-157: DescribeTaskDefinition; found: cached and returned; not
\* found: the arch switch, which returns an error for an unknown arch
TdDescribe(c) ==
    /\ taskDef.frames[c].pc = "describe"
    /\ LET fr == taskDef.frames[c]
           found == fr.family \in taskDef.registered
           td == TdAnswered(taskDef, c, IF found THEN Nil ELSE TdErr("not found"))
       IN taskDef' =
             IF found THEN TdReturn(td, c, Nil)
             ELSE IF cpuArch(fr.arch) = "unknown"
             THEN TdReturn(td, c, UnknownArchErr)
             ELSE [td EXCEPT !.frames[c].pc = "register"]
    /\ UNCHANGED TdRest

\* what RegisterTaskDefinition answers: the definition is registered, ECS
\* reports a concurrent attempt or a resource in use, or another error
RegisterAnswers == {"registered", "concurrent", "error"}

\* lines 190-215: RegisterTaskDefinition
TdRegister(c, answer) ==
    /\ taskDef.frames[c].pc = "register"
    /\ LET fr == taskDef.frames[c]
           e == IF answer = "registered" THEN Nil ELSE RegisterErr
           issued == [taskDef EXCEPT
                         !.regs = taskDef.regs \cup
                                     {[by |-> CallOf(c), family |-> fr.family,
                                       answer |-> answer,
                                       known |-> fr.family \in taskDef.confirmed]},
                         !.registered = IF answer = "registered"
                                        THEN taskDef.registered \cup {fr.family}
                                        ELSE taskDef.registered]
           td == TdAnswered(issued, c, e)
       IN taskDef' =
             CASE answer = "registered" -> TdReturn(td, c, Nil)
               [] answer = "concurrent" -> [td EXCEPT !.frames[c].pc = "re-describe"]
               [] answer = "error" -> TdReturn(td, c, RegisterErr)
    /\ UNCHANGED TdRest

\* lines 196-207: 500 ms later the family is described again; the attempt
\* ECS reported may have registered it by then
TdRedescribe(c, landed) ==
    /\ taskDef.frames[c].pc = "re-describe"
    /\ LET fr == taskDef.frames[c]
           found == landed \/ fr.family \in taskDef.registered
           there == [taskDef EXCEPT
                        !.registered = IF found
                                       THEN taskDef.registered \cup {fr.family}
                                       ELSE taskDef.registered]
           td == TdAnswered(there, c, IF found THEN Nil ELSE TdErr("not found"))
       IN taskDef' = TdReturn(td, c, IF found THEN Nil ELSE RegisterErr)
    /\ UNCHANGED TdRest

\* a family ECS knows when the first call is made: it was registered by an
\* earlier run of the process or by someone else
TdRegisteredOutside(arch) ==
    /\ LET f == FamilyFor(arch, EmptyText, EmptyText).family
       IN /\ f \notin taskDef.registered
          /\ taskDef' = [taskDef EXCEPT
                            !.registered = taskDef.registered \cup {f}]
    /\ \A c \in Callers : taskDef.calls[c] = 0
    /\ UNCHANGED TdRest

NextTaskDef ==
    \/ \E c \in Callers, arch \in TdArchs, r \in TdResources :
          TdEnter(c, arch, r[1], r[2])
    \/ \E c \in Callers :
          \/ TdLock(c)
          \/ TdDescribe(c)
          \/ \E a \in RegisterAnswers : TdRegister(c, a)
          \/ \E landed \in BOOLEAN : TdRedescribe(c, landed)
    \/ \E arch \in TdArchs : TdRegisteredOutside(arch)

SpecTaskDef == InitPure /\ [][NextTaskDef]_vars

\* GET /build/:id/logs, lines 136-139: the status of the answer for the
\* build id of the request
LogsStatus(m, id) == IF StoreGet(m, id).ok THEN 200 ELSE 404

\* the controller with a client that stays connected to GET /build/:id/logs:
\* the goroutine of its stream writer is scheduled like the others
SpecStream == SpecFair /\ WF_vars(LogStream)

(***************************************************************************)
(* Properties.                                                             *)
(***************************************************************************)
HasFailedResult == \E t \in DOMAIN Results : ~Results[t].success

\* the step appends an entry to the channel
Appends == Len(Logs') = Len(Logs) + 1

\* the step leaves the channel alone or is a receive of the stream writer
NoAppend == Logs' = Logs \/ (Logs # <<>> /\ Logs' = Tail(Logs))

\* the finalizer has taken the branch of line 221: the wait ended without
\* ResultsReceived = TotalTasks
TimeoutTaken == fz.err.kind = "timeout waiting for agent results"

\* C1: ResultsReceived equals the number of keys of Results in every state,
\* whatever result callbacks and SetResult calls have been made; a repeated
\* task id does not raise the counter.
C1_CounterEqualsKeys == ResultsReceived = Cardinality(DOMAIN Results)

\* C2: the first result stored for a task id stays: no step (result callback
\* or SetResult) removes a key of Results or changes the value stored under it.
C2_FirstResultWins ==
    [][\A t \in DOMAIN Results : t \in DOMAIN Results' /\ Results'[t] = Results[t]]_vars

\* C3: FirstError is the first non-nil error handed to the state (by SetError,
\* by a stored failed result or by the first Finish), nil when there was none;
\* once non-nil it never changes, and SetError(nil) changes nothing.
C3_FirstErrorSticky ==
    [][ /\ FirstError = recorded
        /\ FirstError' = recorded'
        /\ FirstError # Nil => FirstError' = FirstError ]_vars

C3_Witness ==
    /\ FirstError = ClientErr
    /\ HasFailedResult
    /\ opsLeft = 0

\* C4: the channels are closed at most once, only by the second critical
\* section of Finish and in the step that sets `closed`; a Finish that finds
\* `finished` set returns and changes neither the state nor the channel.
C4_FinishSingleShot ==
    [][ /\ closeCount' <= 1
        /\ (closed' # closed \/ closeCount' # closeCount) =>
              /\ ~closed /\ closed'
              /\ closeCount' = closeCount + 1
              /\ \E c \in DOMAIN fin : FinishClose(c)
        /\ \A c \in DOMAIN fin : (finished /\ FinishEnter(c)) =>
              /\ fin'[c].pc = "done"
              /\ UNCHANGED <<stateVars, Logs, histVars>> ]_vars

C4_Witness ==
    /\ closed
    /\ closeCount = 1
    /\ fin["a1"].pc = "done"
    /\ fin["a2"].pc = "done"

\* C5: once finished is true, every entry that enters the Logs channel was
\* appended by Finish itself; no public AppendLog adds one.
C5_OnlyFinishAppendsAfterFinished ==
    [][(finished /\ Appends) => Logs'[Len(Logs')].fromFinish]_vars

\* C6: every accepted build ends with the finalizer having called Finish, and
\* Finish has taken effect exactly once: one verdict line, one close.
C6_FinishExactlyOnce ==
    <>[](/\ fz.pc = "end"
         /\ finished /\ closed
         /\ verdicts = 1 /\ closeCount = 1)

C6_Witness ==
    /\ fz.pc = "end"
    /\ AllResultsReceived
    /\ verdicts = 1
    /\ closeCount = 1
    /\ \E i \in DOMAIN sup : sup[i] = "done" /\ FirstError = PanicErr(TaskIdAt(i))

\* C7: a send into a full channel drops the entry, a send after the close is
\* a no-op, and no send ever waits: the build reaches the close of its
\* channels also when nobody receives from the Logs channel.
C7_AppendLogNeverBlocks ==
    /\ [][(Len(Logs) = LogCap \/ closed) => NoAppend]_vars
    /\ <>closed

C7_Witness ==
    /\ closed
    /\ Len(Logs) = LogCap
    /\ trailer = "none"
    /\ \E r \in BagToSet(reqs) : r.snd

\* C8: createManifest is invoked at most once, and only for a build with more
\* than one pushing task for which no error has been recorded when the
\* finalizer reaches line 229.
C8_ManifestOnlyMultiArchNoError ==
    [][manifestCalls' # manifestCalls =>
          /\ manifestCalls = 0 /\ manifestCalls' = 1
          /\ Cardinality(PushIdx) > 1
          /\ FirstError = Nil
          /\ recorded = Nil]_vars

C8_Witness ==
    /\ manifestCalls = 1
    /\ fz.pc = "end"
    /\ verdict = "BUILD SUCCEEDED"

C11_SiblingsIndependent ==
    /\ [][ /\ \A i, j \in DOMAIN sup :
                 (i # j /\ sup'[i] # sup[i]) => sup'[j] = sup[j]
           /\ \A i \in DOMAIN sup :
                 (sup[i] \in {"set failed", "set panic"} /\ sup'[i] = "done") =>
                    /\ recorded' = FirstRecorded(recorded,
                                       IF sup[i] = "set failed" THEN ExecErr
                                       ELSE PanicErr(TaskIdAt(i)))
                    /\ FirstError' # Nil
           /\ fz'.pc # "wait" => \A i \in DOMAIN sup : sup'[i] = "done" ]_vars
    /\ <>(fz.pc # "wait" /\ \A i \in DOMAIN sup : sup[i] = "done")

C11_Witness ==
    /\ Len(effectiveList) = 2
    /\ sup[1] = "done"
    /\ FirstError = PanicErr(TaskIdAt(1))
    /\ sup[2] = "dispatch"
    /\ fz.pc = "wait"

\* the dispatch of supervisor i returns in this step after a clean exit of
\* its remote task (exit code 0, no anomaly of the executor)
CleanExit(i) == sup[i] = "dispatch" /\ sup'[i] \in {"ok", "clean failed"}

\* the dispatch of supervisor i returns a non-nil error in this step
ReturnsError(i) == sup[i] = "dispatch" /\ sup'[i] \in {"failed", "clean failed"}

\* C12: the dispatch of an executor, ECS or K8s, returns nil when the remote
\* task exits cleanly, whatever the build's first error is by then (a failure
\* the worker reported through the result callback, an error of a sibling);
\* it returns a non-nil error only for an anomaly of its own task.
C12_NilOnCleanExit ==
    [][\A i \in DOMAIN sup : CleanExit(i) => ~ReturnsError(i)]_vars

\* some bake entry of the manifest has no arch and the global section has none
LacksArch(c) ==
    /\ c.Global.Arch = ""
    /\ \E i \in DOMAIN c.Bake : c.Bake[i].Arch = ""

\* C19: BuildEffectiveList fails for a nil config and for every manifest in
\* which some bake entry has no arch while the global section has none; when
\* it fails it returns no list, not the entries resolved before the failure.
C19_MissingArchFails ==
    plan # NoPlan =>
        /\ (cfg.nil \/ LacksArch(cfg)) => plan.err # Nil
        /\ plan.err # Nil => plan.list = <<>>

C19_Witness ==
    /\ plan # NoPlan
    /\ ~cfg.nil
    /\ Len(cfg.Bake) = 2
    /\ cfg.Bake[1].Arch # ""
    /\ cfg.Bake[2].Arch = ""
    /\ cfg.Global.Arch = ""
    /\ plan.err = ArchErr

\* the merged map has the keys of both maps and, for each key, the value of
\* the bake map if the bake map has the key and the value of the global map
\* otherwise
IsOverlay(merged, global, bake) ==
    /\ DOMAIN merged = DOMAIN global \cup DOMAIN bake
    /\ \A k \in DOMAIN merged :
          merged[k] = IF k \in DOMAIN bake THEN bake[k] ELSE global[k]

\* C20: in every effective config the env map and the build-args map have
\* exactly the keys of the global map and of the bake entry's map, and where
\* both have a key the value of the bake entry is the one kept.
C20_MapsMergedBakeWins ==
    (plan # NoPlan /\ plan.err = Nil) =>
        \A i \in DOMAIN plan.list :
            /\ IsOverlay(plan.list[i].Env, cfg.Global.Env, cfg.Bake[i].Env)
            /\ IsOverlay(plan.list[i].BuildArgs, cfg.Global.BuildArgs,
                         cfg.Bake[i].BuildArgs)

C20_Witness ==
    /\ plan # NoPlan
    /\ plan.err = Nil
    /\ \E i \in DOMAIN plan.list :
          /\ cfg.Global.Env = ("K1" :> "g") @@ ("K2" :> "g")
          /\ cfg.Bake[i].Env = ("K2" :> "b") @@ ("K3" :> "b")
          /\ plan.list[i].Env = ("K1" :> "g") @@ ("K2" :> "b") @@ ("K3" :> "b")
          /\ plan.list[i].BuildArgs = ("A1" :> "b")

\* C14: whatever registers and deletes came before, a Get of a key returns a
\* miss or the state registered last under that key (and not deleted since),
\* and the ID of a state it returns is the key asked for, also when states
\* were registered under keys other than their ID.
C14_GetReturnsOwnId ==
    [][got' # got =>
          \/ ~got'.ok
          \/ /\ got'.key \in DOMAIN lastReg
             /\ lastReg[got'.key] = StateRef(got'.ID, got'.ptr)
             /\ got'.ID = got'.key]_vars

\* a state is registered under a key that is not its ID, over a state whose
\* ID is the key; the Get of the key that follows is a miss
C14_Witness ==
    /\ got.called
    /\ ~got.ok
    /\ got.key \in DOMAIN states
    /\ states[got.key].ID # got.key
    /\ states[got.key].ptr > 1

\* the platforms an executor serves (orchestrator.go lines 150 and 164)
KnownPlatforms == {"ecs", "k8s"}

\* the body fails validation: it is not a manifest, or some entry is left
\* without an arch, or some entry names a platform no executor serves
ValidationFailure(body) ==
    \/ ~body.wellFormed
    \/ LacksArch(body.cfg)
    \/ \E i \in DOMAIN body.cfg.Bake :
          EffectivePlatform(body.cfg.Bake[i], body.cfg.Global) \notin KnownPlatforms

\* the step is StartBuild returning for the request body `body`
Submits(body) == NotReturned /\ ~NotReturned' /\ body.cfg = cfg'

\* C13: for a body that fails validation (malformed manifest, missing arch,
\* unknown platform) StartBuild returns an error to the caller, registers no
\* Build State and starts no supervisor.
C13_ValidationSynchronous ==
    [][\A body \in Bodies :
          (Submits(body) /\ ValidationFailure(body)) =>
              /\ ret'.err # Nil
              /\ states' = states
              /\ sup' = <<>>]_vars

\* the archs of the pushing tasks
PushArchs == {effectiveList[i].arch : i \in PushIdx}

C15_StreamEndsWithVerdict ==
    /\ [][trailer' # trailer =>
             /\ trailer = "none"
             /\ closed /\ Logs = <<>>
             /\ trailer' = IF FirstError # Nil THEN "BUILD FAILED"
                           ELSE "BUILD SUCCEEDED"]_vars
    /\ [](LogsStatus(states, BuildId) = 200 /\ LogsStatus(states, OtherId) = 404)
    /\ (closed /\ Logs = <<>>) ~> (trailer # "none")

\* the step puts entry e at the end of the channel
Appended(e) == Logs' = Append(Logs, e)

\* C16: Finish puts one task-summary line for each task id of Results or
\* TaskArnByID into the channel, in sorted order, then its verdict line, and
\* closes the channel after that: each of its appends enters the channel,
\* nothing enters the channel after the verdict line, and the channel is not
\* closed without a verdict line in it.
C16_VerdictLineLast ==
    [][\A c \in DOMAIN fin :
          /\ (fin[c].pc = "snapshot" /\ fin'[c].pc = "summary") =>
                 /\ {fin'[c].lines[j].task : j \in DOMAIN fin'[c].lines}
                        = DOMAIN Results \cup TaskArnByID
                 /\ \A j \in DOMAIN fin'[c].lines : \A k \in DOMAIN fin'[c].lines :
                        (j < k) => \E a, b \in DOMAIN IdOrder :
                                      /\ a < b
                                      /\ IdOrder[a] = fin'[c].lines[j].task
                                      /\ IdOrder[b] = fin'[c].lines[k].task
          /\ (fin[c].pc = "summary" /\ fin'[c].lines # fin[c].lines) =>
                 Appended(Head(fin[c].lines))
          /\ (fin[c].pc = "final" /\ fin'[c].pc = "close") =>
                 Appended(Entry(verdict', "", "", TRUE))
          /\ verdicts >= 1 => NoAppend
          /\ (closed' /\ ~closed) => verdicts >= 1]_vars

\* the step is the answer to a POST /build/:id/result request
Answered == resp'.n = resp.n + 1

\* C17 (as the code has it): POST /build/:id/result works with the `task`
\* query parameter when it is non-empty after white space is trimmed from
\* it, and with the trimmed taskId of the body otherwise; it answers 400
\* exactly for a malformed body or when both are empty after trimming, and
\* then leaves the Build State, its log channel and the store unchanged;
\* for a registered build every other request is answered 200, and its
\* task id has a result afterwards: the one of the request when it is
\* accepted, the earlier one when it is dropped as a duplicate.
C17_TaskIdTrimmed ==
    [][Answered =>
        LET r == resp'
            q == TrimSpace(r.query)
            b == TrimSpace(r.bodyTask)
            bad == ~r.wellFormed \/ (q = "" /\ b = "")
        IN /\ (r.status = 400) <=> bad
           /\ r.status = 400 => UNCHANGED <<stateVars, Logs, storeVars>>
           /\ (~bad /\ r.id = BuildId) =>
                 /\ r.status = 200
                 /\ r.task = (IF q # "" THEN q ELSE b)
                 /\ r.task \in DOMAIN Results'
                 /\ IF r.task \in DOMAIN Results
                    THEN Results' = Results
                    ELSE Results'[r.task] = TaskResult(r.digest, r.success)
    ]_vars

\* the last request had a query parameter of white space only and a padded
\* taskId in its body, and was accepted under the trimmed taskId
C17_Witness ==
    /\ resp.n > 0
    /\ resp.query = " "
    /\ resp.bodyTask = " amd64 "
    /\ resp.status = 200
    /\ resp.task = "amd64"
    /\ "amd64" \in DOMAIN Results

\* C17 (as stated): the task id comes from the query parameter when that is
\* non-empty and from the taskId of the body otherwise; the answer is 400
\* exactly for a malformed body or when both are missing, with the Build
\* State unchanged, and 200 for every other request of a registered build.
C17_TaskIdFromQueryOrBody ==
    [][Answered =>
        LET r == resp'
            bad == ~r.wellFormed \/ (r.query = "" /\ r.bodyTask = "")
        IN /\ (r.status = 400) <=> bad
           /\ r.status = 400 => UNCHANGED <<stateVars, Logs, storeVars>>
           /\ (~bad /\ r.id = BuildId) =>
                 /\ r.status = 200
                 /\ IF r.query # ""
                    THEN r.task \in {r.query, TrimSpace(r.query)}
                    ELSE r.task \in {r.bodyTask, TrimSpace(r.bodyTask)}
    ]_vars

\* C21: kaniko-credentials and ignore-path of an effective config are the
\* list of the bake entry when that list is non-empty and the list of the
\* global section otherwise, never a mixture of the two.
C21_ListsAllOrNothing ==
    (plan # NoPlan /\ plan.err = Nil) =>
        \A i \in DOMAIN plan.list :
            LET b == cfg.Bake[i]
                g == cfg.Global
                ef == plan.list[i]
            IN /\ ef.KanikoCredentials =
                     (IF b.KanikoCredentials # <<>> THEN b.KanikoCredentials
                      ELSE g.KanikoCredentials)
               /\ ef.IgnorePath =
                     (IF b.IgnorePath # <<>> THEN b.IgnorePath
                      ELSE g.IgnorePath)

\* both sections have credentials and ignore paths, and those of the bake
\* entry alone are in effect; another entry of the same manifest took over
\* the global ignore paths
C21_Witness ==
    /\ plan # NoPlan
    /\ plan.err = Nil
    /\ Len(plan.list) = 2
    /\ cfg.Global.KanikoCredentials = <<"cg1">>
    /\ cfg.Global.IgnorePath = <<"ig1", "ig2">>
    /\ cfg.Bake[1].KanikoCredentials = <<"cb1", "cb2">>
    /\ cfg.Bake[1].IgnorePath = <<"ib1">>
    /\ plan.list[1].KanikoCredentials = <<"cb1", "cb2">>
    /\ plan.list[1].IgnorePath = <<"ib1">>
    /\ cfg.Bake[2].IgnorePath = <<>>
    /\ plan.list[2].IgnorePath = <<"ig1", "ig2">>

\* C22: the destination of an effective config is the destination of its
\* bake entry, and empty when the entry sets none, whatever the global
\* destination is.
C22_DestinationNotInherited ==
    (plan # NoPlan /\ plan.err = Nil) =>
        \A i \in DOMAIN plan.list :
            plan.list[i].Destination = cfg.Bake[i].Destination

\* the global section has a destination, one bake entry has its own and
\* another has none
C22_Witness ==
    /\ plan # NoPlan
    /\ plan.err = Nil
    /\ Len(plan.list) = 2
    /\ cfg.Global.Destination = "reg/g:v1"
    /\ cfg.Bake[1].Destination = ""
    /\ plan.list[1].Destination = ""
    /\ cfg.Bake[2].Destination = "reg/b:v2"
    /\ plan.list[2].Destination = "reg/b:v2"

\* (cpu, memory) is a pair of the CPU-to-memory tables
ValidPair(cpu, memory) ==
    /\ cpu \in Range(validCPUs)
    /\ memory \in Range(getValidECSMemories(cpu))

\* C23: NormalizeECSResources applied to a valid pair, written the way the
\* function writes its output, returns that pair.
C23_NormalizeIdempotent ==
    (/\ call.fn = "NormalizeECSResources"
     /\ \E cpu \in CpuNumbers, memory \in MemoryNumbers :
           /\ ValidPair(cpu, memory)
           /\ call.args = <<Dec(cpu), Dec(memory)>>)
    => /\ call.result.err = ""
       /\ call.result.cpu = call.args[1]
       /\ call.result.mem = call.args[2]

\* the smallest element of S that is >= x, and the largest element of S
\* when there is none
RoundedUpIn(S, x) ==
    IF \E v \in S : v >= x
    THEN CHOOSE v \in S : v >= x /\ \A w \in S : w >= x => v <= w
    ELSE CHOOSE v \in S : \A w \in S : w <= v

Tiers == {256, 512, 1024, 2048, 4096, 8192, 16384}

\* C24: RoundUpECSCPU returns the smallest tier that is >= its argument and
\* 16384 above all tiers; RoundUpECSMemory returns the smallest entry of the
\* tier's table that is >= the memory, the largest entry above all of them,
\* and the memory itself for a cpu that is no tier.
C24_RoundUp ==
    /\ call.fn = "RoundUpECSCPU" =>
          call.result = RoundedUpIn(Tiers, call.args[1])
    /\ call.fn = "RoundUpECSMemory" =>
          call.result =
             IF call.args[1] \in Tiers
             THEN RoundedUpIn(Range(getValidECSMemories(call.args[1])),
                              call.args[2])
             ELSE call.args[2]

\* a memory between two entries of the table of 256 is rounded up to the
\* second entry
C24_Witness == call = Called("RoundUpECSMemory", <<256, 600>>, 1024)

\* the step is a call of MarkIngestDone
MarksDone == call'.fn = "MarkIngestDone" /\ opsLeft' = opsLeft - 1

\* C25: a MarkIngestDone call for a task id that is marked already changes
\* nothing and returns false; the count equals the number of ids marked; at
\* most one call returns true, and the call that does completes the last
\* outstanding ingest: afterwards every task of the build is marked done.
C25_MarkIngestDoneOnce ==
    [][MarksDone =>
        LET t == call'.args[1]
        IN /\ t \in IngestDone =>
                /\ UNCHANGED <<IngestDone, IngestDoneCt>>
                /\ call'.result = FALSE
           /\ IngestDoneCt' = Cardinality(IngestDone')
           /\ doneTrue' <= 1
           /\ call'.result = TRUE =>
                /\ t \notin IngestDone
                /\ BuildTaskIds \subseteq IngestDone'
    ]_vars

\* C26: the number of stored results never exceeds the number of tasks of
\* the build, whatever task ids the result callbacks carry.
C26_ResultsBounded == ResultsReceived <= TotalTasks

\* C27: for every destination, with or without tag and with or without a
\* registry port, appendArchSuffix returns "<base>:<tag>_<arch>" when the
\* destination has a tag and "<destination>:latest_<arch>" when it has none.
C27_ArchSuffixOnTag ==
    call.fn = "appendArchSuffix" =>
        LET ref == call.args[1]
            arch == call.args[2]
        IN call.result =
              BaseText(ref) \o <<":", (IF ref.tag = "" THEN "latest" ELSE ref.tag),
                                 "_", arch>>

\* C28: the task ids StartBuild gives the effective configs of a build are
\* pairwise distinct.
C28_TaskIdsDistinct ==
    (~NotReturned /\ ret.err = Nil) =>
        \A i, j \in DOMAIN effectiveList :
            i # j => TaskIdAt(i) # TaskIdAt(j)

\* the finalizer went through createManifest and the push returned no error
ManifestPushed == manifestCalls = 1 /\ fz.err = Nil

\* C29: once Finish has emitted BUILD SUCCEEDED, the task id of every
\* effective config has a stored result with success = true, and for a
\* multi-arch build the manifest list was pushed without error.
C29_SuccessMeansAllSucceeded ==
    verdict = "BUILD SUCCEEDED" =>
        /\ \A i \in DOMAIN effectiveList :
              /\ TaskIdAt(i) \in DOMAIN Results
              /\ Results[TaskIdAt(i)].success
        /\ ~IsSingleArch => ManifestPushed

\* C30: the final entry the log stream writes after the close states the
\* verdict of the final line Finish emitted.
C30_TrailerIsVerdict == trailer # "none" => trailer = verdict

\* the executor the supervisor of the config at i was handed to, if any
StartedOn(i) == {x \in {"ecs", "k8s"} : <<i, x>> \in remoteStarts}

\* C38: past its dispatch a supervisor has called the ECS executor exactly
\* when the platform of its config is "ecs" and the K8s executor exactly
\* when it is "k8s" and a K8s executor is configured; for every other
\* platform, and for "k8s" without a K8s executor, it has called no executor,
\* is on its way to SetError, and has set the sticky error when it returns;
\* whatever a supervisor does, every other supervisor that has not returned
\* can still take its next step.
C38_PlatformRouting ==
    \A i \in DOMAIN sup :
        /\ sup[i] \in {"start", "dispatch"} => StartedOn(i) = {}
        /\ sup[i] \notin {"start", "dispatch"} =>
              LET pf == effectiveList[i].platform
              IN /\ pf = "ecs" => StartedOn(i) = {"ecs"}
                 /\ (pf = "k8s" /\ k8sConfigured) => StartedOn(i) = {"k8s"}
                 /\ (pf \notin {"ecs", "k8s"} \/ (pf = "k8s" /\ ~k8sConfigured)) =>
                       /\ StartedOn(i) = {}
                       /\ TaskArnByID \subseteq
                             {TaskIdAt(j) : j \in DOMAIN sup \ {i}}
                       /\ sup[i] \in {"failed", "set failed", "done"}
                       /\ sup[i] = "done" => FirstError # Nil
        /\ sup[i] \notin {"done", "crashed"} => ENABLED SupervisorAt(i)

\* a k8s task without a K8s executor has failed and returned, nothing was
\* started for it, and the ecs task beside it was run and finished without
\* an error of its own
C38_Witness ==
    /\ ~k8sConfigured
    /\ Len(effectiveList) = 2
    /\ effectiveList[1].platform = "ecs"
    /\ effectiveList[2].platform = "k8s"
    /\ effectiveList[1].arch # effectiveList[2].arch
    /\ sup = <<"done", "done">>
    /\ remoteStarts = {<<1, "ecs">>}
    /\ TaskArnByID = {TaskIdAt(1)}
    /\ FirstError = ExecErr

\* C40: for a pushing task of a multi-arch build the image reference
\* createManifest enters into the manifest list is the destination the
\* executor handed the task's worker as KANIKO_DESTINATION, whether the task
\* has no destination of its own, one that differs from the global
\* destination or one that equals it, and with and without duplicate archs.
C40_ManifestImageIsWorkerDestination ==
    (call.fn = "destinations" /\ ~call.args.isSingleArch) =>
        call.result.manifest = call.result.worker

\* the entries createManifest has added when its loop is at index k: one for
\* every pushing config in front of k, in the order of the list, under the
\* task id the supervisor of the config was started with
EntriesBefore(k) ==
    SelectSeq([i \in 1..(k - 1) |-> [idx |-> i, key |-> TaskIdAt(i)]],
              LAMBDA e : ~effectiveList[e.idx].noPush)

\* createManifest is past its loop: CreateManifestList is about to be
\* called, or has returned
ListComplete ==
    \/ fz.pc \in {"creating", "creating list", "push", "manifest created"}
    \/ fz.err = ManifestErr("push failed", "")

\* C37: the entries of the manifest list are those of the pushing configs the
\* loop of createManifest has passed, each looked up under the task id of its
\* dispatch (the id its handle is stored under) and found with a successful
\* result; the list handed to the registry has exactly one entry per pushing
\* config and none for a no-push config; a missing result ends createManifest
\* with an error that names the task id looked for, before anything is
\* pushed, and the finalizer hands that error to SetError, so that the
\* sticky error is set, and is this error unless another was recorded first.
C37_ManifestEntries ==
    /\ fz.images = EntriesBefore(fz.k)
    /\ \A n \in DOMAIN fz.images :
          /\ fz.images[n].key \in DOMAIN Results
          /\ Results[fz.images[n].key].success
          /\ fz.images[n].key \in TaskArnByID
    /\ ListComplete =>
          /\ {fz.images[n].idx : n \in DOMAIN fz.images} = PushIdx
          /\ Len(fz.images) = Cardinality(PushIdx)
    /\ fz.err.kind = "missing result" =>
          /\ ~ListComplete
          /\ fz.k \in PushIdx
          /\ fz.err = ManifestErr("missing result", TaskIdAt(fz.k))
          /\ fz.pc \notin {"manifest failed", "set manifest"} =>
                /\ FirstError # Nil
                /\ recorded = fz.err => FirstError = fz.err

\* the list of a build with three configs was pushed: entries for amd64 and
\* arm64, none for the arm config that does not push
C37_Witness ==
    /\ fz.pc = "manifest created"
    /\ Len(effectiveList) = 3
    /\ effectiveList[2].noPush
    /\ fz.images = <<[idx |-> 1, key |-> "amd64"], [idx |-> 3, key |-> "arm64"]>>

\* C39: BuildState.Mu never gets into the state where a goroutine that
\* holds the read lock waits for it again behind a waiting writer: every
\* Lock() and RLock() of the Build State operations returns.
C39_NoLockDeadlock == mu # "dead"

\* the K8s executor has been followed to the end: its goroutine is over and
\* RunTask has returned
K8sOver == k8sRun.pc = "done" /\ k8sRun.main = "returned"

\* C31: every remote anomaly an executor has seen (pods disappeared, pod
\* never started, watch closed without a terminal job condition, describe
\* error on the final-state probe) leaves the sticky error of the build set
\* when the executor returns
C31_AnomalyLeavesStickyError ==
    (K8sOver /\ k8sRun.seen # {}) => FirstError # Nil

\* the anomalies other than a watch that closed on a job without a terminal
\* condition do leave the sticky error set
AnomalyButUnclearRecorded ==
    (K8sOver /\ k8sRun.seen \ {"no terminal condition"} # {}) =>
        FirstError # Nil

\* an anomaly of the K8s task leaves the supervisor of the sibling task
\* where it is
SiblingUntouched == [][k8sRun' # k8sRun => sup'[EcsIdx] = sup[EcsIdx]]_vars

\* C33: when the context is done during the watch, the goroutine hands the
\* job-timeout error to SetError first of all, so the sticky error is set,
\* inspects the exit code under context.Background() with ctx.Err() as the
\* job error, and RunTask returns a non-nil error: the one of its case
\* ctx.Done() when the supervising context was done, which it can return at
\* once
C33_CancelUnblocksExecutor ==
    /\ k8sRun.pc \notin {"idle", "not created"} /\ k8sRun.via = "ctx done" =>
          /\ k8sRun.set # <<>> /\ k8sRun.set[1] = JobTimeoutErr
          /\ FirstError # Nil
          /\ k8sRun.jobErr = CtxErr
          /\ k8sRun.inspectCtx = "background"
          /\ k8sRun.main = "returned" => k8sRun.ret # Nil
    /\ k8sRun.pc \notin {"idle", "not created"} /\ k8sRun.main = "case ctx" =>
          /\ k8sRun.ctx = "done"
          /\ sup[K8sIdx] = "dispatch"
          /\ ENABLED K8sReturn
    /\ k8sRun.pc \notin {"idle", "not created"} /\ k8sRun.main = "returned"
          /\ k8sRun.ret = WaitCancelledErr => k8sRun.ctx = "done"

\* the supervising context was done while the goroutine waited in its watch
\* loop; RunTask has returned the error of its case ctx.Done() and the
\* goroutine has inspected the pod under the background context
C33_Witness ==
    /\ k8sRun.pc = "done"
    /\ k8sRun.via = "ctx done"
    /\ k8sRun.ctx = "done"
    /\ k8sRun.main = "returned"
    /\ k8sRun.ret = WaitCancelledErr
    /\ k8sRun.inspectCtx = "background"
    /\ k8sRun.exit = "zero"
    /\ FirstError = JobTimeoutErr

\* the goroutine is in or past the waits of checkPodExitCode
InWaits == k8sRun.pc \in {"result wait", "ingest wait", "mark"}
PastWaits ==
    k8sRun.pc \notin {"idle", "not created"} /\ k8sRun.pc = "done"
        /\ k8sRun.exit # "none"

\* C34: after the exit code of the agent container is read, the goroutine
\* waits for the result of the task and then for the end of its ingest, each
\* wait for a bounded number of rounds; a wait that gives up logs a warning
\* and hands no error to SetError; the goroutine then marks the ingest of the
\* task id as done and returns
C34_WaitsAreBoundedAndSoft ==
    (InWaits \/ PastWaits) =>
        /\ k8sRun.resultWaited <= MaxPolls
        /\ k8sRun.ingestWaited <= MaxPolls
        /\ k8sRun.pc = "result wait" =>
              k8sRun.ingestWaited = 0 /\ k8sRun.warned = {}
        /\ "result not received" \in k8sRun.warned =>
              k8sRun.resultWaited = MaxPolls
        /\ "ingest not confirmed" \in k8sRun.warned =>
              k8sRun.ingestWaited = MaxPolls
        /\ k8sRun.set = k8sRun.setBefore
        /\ k8sRun.pc = "result wait" => ENABLED K8sResultPoll
        /\ k8sRun.pc = "ingest wait" => ENABLED K8sIngestPoll
        /\ k8sRun.pc = "mark" => ENABLED K8sMarkIngestDone
        /\ PastWaits => k8sRun.marked /\ TaskIdAt(K8sIdx) \in IngestDone

\* both waits gave up, nothing was recorded, the ingest of the task is marked
\* done and RunTask has returned nil
C34_Witness ==
    /\ K8sOver
    /\ k8sRun.exit = "zero"
    /\ k8sRun.warned = {"result not received", "ingest not confirmed"}
    /\ k8sRun.marked
    /\ TaskIdAt(K8sIdx) \in IngestDone
    /\ TaskIdAt(K8sIdx) \notin DOMAIN Results
    /\ FirstError = Nil
    /\ k8sRun.ret = Nil

\* the round of waitTaskStopped after a describe error is not the last one
\* the loop can make
EcsLoopOpen == ecsRun.described < MaxDescribes

\* C32: the ECS executor stays in the loop of waitTaskStopped until a
\* DescribeTasks shows STOPPED or its context is done, and goes on after a
\* describe error; it returns the timeout error only when the context is
\* done; after STOPPED a non-zero exit code of the agent container is handed
\* to SetError and returned, exit code 0 returns nil; no step waits for the
\* result of the task
C32_EcsWaitAndExitCode ==
    /\ ecsRun.pc = "poll" =>
          /\ ecsRun.status # "STOPPED"
          /\ ecsRun.ctx = "live"
          /\ EcsLoopOpen => ENABLED EcsDescribe("STOPPED")
    /\ ecsRun.pc = "case ctx" => ecsRun.ctx = "done" /\ ENABLED EcsCancelled
    /\ ecsRun.pc = "probe" =>
          /\ ecsRun.status = "STOPPED"
          /\ \A a \in ProbeAnswers : ENABLED EcsCheckExitCode(a)
    /\ ecsRun.pc = "returned" =>
          /\ ecsRun.ret = EcsTimeoutErr <=>
                ecsRun.ctx = "done" /\ ecsRun.status # "STOPPED"
          /\ ecsRun.ret # EcsTimeoutErr => ecsRun.status = "STOPPED"
          /\ ecsRun.probe = "agent" /\ ToInt32(ecsRun.exitCode) # 0 =>
                /\ ecsRun.ret = EcsAgentExitErr
                /\ ecsRun.set = <<EcsAgentExitErr>>
                /\ FirstError # Nil
          /\ ecsRun.probe = "agent" /\ ecsRun.exitCode = {0} =>
                ecsRun.ret = Nil /\ ecsRun.set = <<>>

\* a describe error was retried, the task stopped with exit code 1, the
\* error is the sticky error and was returned, and the result of the task
\* has not arrived
C32_Witness ==
    /\ ecsRun.pc = "returned"
    /\ ecsRun.errors > 0
    /\ ecsRun.status = "STOPPED"
    /\ ecsRun.exitCode = {1}
    /\ ecsRun.ret = EcsAgentExitErr
    /\ FirstError = EcsAgentExitErr
    /\ TaskIdAt(EcsIdx) \notin DOMAIN Results

\* exit code 0 returns nil although the result of the task has not arrived
EcsNilBeforeCallback ==
    /\ ecsRun.pc = "returned"
    /\ ecsRun.exitCode = {0}
    /\ ecsRun.ret = Nil
    /\ sup[EcsIdx] \in {"ok", "done"}
    /\ TaskIdAt(EcsIdx) \notin DOMAIN Results

\* the callers that hold taskDefMu between Lock and the deferred Unlock
InCacheMiss ==
    {c \in Callers : taskDef.frames[c].pc \in {"describe", "register", "re-describe"}}

\* the RegisterTaskDefinition requests issued for a family
RegsFor(f) == {r \in taskDef.regs : r.family = f}

\* the families the calls have asked for
AskedFamilies == {r.family : r \in taskDef.regs}

\* the calls that have been entered and are past the lock
PastLock(c) == taskDef.frames[c].pc \notin {"idle", "lock"}

\* C35 as stated: among concurrent calls for one family at most one
\* RegisterTaskDefinition is issued
C35_OneRegisterIssued ==
    \A r1, r2 \in taskDef.regs :
        r1.family = r2.family /\ {r1.by, r2.by} \in taskDef.overlap =>
            r1 = r2

\* C35: the cache-miss path is serialised by taskDefMu: at most one caller
\* is between its describe and its return, and it holds the lock; for a
\* family at most one RegisterTaskDefinition succeeds, every other one was
\* answered with an error, and none is issued once a describe or a register
\* of the executor has succeeded for the family; a cached family is one a
\* describe or a register has succeeded for; a call that finds its family
\* cached returns it without an API call
C35_CacheMissSerialised ==
    /\ Cardinality(InCacheMiss) <= 1
    /\ \A c \in InCacheMiss : taskDef.holder = c
    /\ taskDef.holder # "none" => taskDef.holder \in InCacheMiss
    /\ \A f \in AskedFamilies :
          /\ Cardinality({r \in RegsFor(f) : r.answer = "registered"}) <= 1
          /\ \A r \in RegsFor(f) : ~r.known
    /\ taskDef.cache \subseteq taskDef.confirmed
    /\ taskDef.confirmed \subseteq taskDef.registered
    /\ \A c \in Callers :
          /\ PastLock(c) /\ taskDef.frames[c].hit =>
                /\ taskDef.frames[c].pc = "returned"
                /\ taskDef.frames[c].api = 0
                /\ taskDef.frames[c].err = Nil
                /\ ~taskDef.frames[c].added
          /\ taskDef.frames[c].pc = "returned" /\ taskDef.frames[c].added =>
                /\ taskDef.frames[c].err = Nil
                /\ taskDef.frames[c].family \in taskDef.cache

\* two calls for one family are in progress at the same time; the first
\* registers the family, the second finds it cached and makes no API call
C35_Witness ==
    \E c, d \in Callers :
        /\ c # d
        /\ {CallOf(c), CallOf(d)} \in taskDef.overlap
        /\ taskDef.frames[c].pc = "returned"
        /\ taskDef.frames[d].pc = "returned"
        /\ taskDef.frames[c].family = taskDef.frames[d].family
        /\ taskDef.frames[c].added
        /\ \E r \in taskDef.regs : r.by = CallOf(c) /\ r.answer = "registered"
        /\ taskDef.frames[d].hit
        /\ taskDef.frames[d].api = 0

\* C36: a call with an unsupported (arch, cpu, memory) triple returns an
\* error, has issued no ECS API call and has not added to the cache
C36_UnsupportedFailsBeforeApi ==
    \A c \in Callers :
        taskDef.frames[c].pc = "returned" /\ taskDef.frames[c].unsupported =>
            /\ taskDef.frames[c].err # Nil
            /\ taskDef.frames[c].api = 0
            /\ ~taskDef.frames[c].added

\* cpu and memory settings that are not supported do fail before the lock
UnsupportedResourcesFailEarly ==
    \A c \in Callers :
        taskDef.frames[c].pc = "returned"
            /\ taskDef.frames[c].err \in {NormalizeErr, InvalidResourcesErr} =>
                /\ taskDef.frames[c].api = 0
                /\ ~taskDef.frames[c].added

\* a call for an unknown arch whose family ECS knows returns the family and
\* caches it
UnknownArchCached ==
    \E c \in Callers :
        /\ taskDef.frames[c].pc = "returned"
        /\ taskDef.frames[c].arch = "arm"
        /\ taskDef.frames[c].err = Nil
        /\ taskDef.frames[c].added

====
